---- MODULE Spec2Model ----
(***************************************************************************)
(* Model of the chat / screenshot orchestration of mcp-screenshot-poc:     *)
(*   - the chat route (POST, GET) in its function-calling variant          *)
(*     (src/app/api/chat/route.ts) and its two-call variant                *)
(*     (detectScreenshotIntent + extractUrlFromPrompt),                    *)
(*   - the screenshot route (POST) in its two variants,                    *)
(*   - the helper child process as seen through its stdout / stderr /      *)
(*     'error' / 'close' events.                                           *)
(* One action is one run-to-completion segment of a handler between two    *)
(* awaits of the Node event loop.                                          *)
(*                                                                         *)
(* Strings are sequences of string tokens, concatenation is \o, the empty  *)
(* string is <<>>.  An optional value (undefined / null / absent key) is   *)
(* a sequence of length 0 (absent) or 1 (present).                         *)
(***************************************************************************)
EXTENDS Integers, Sequences, FiniteSets, TLC

\* ---------------------------------------------------------------- bounds
NumChatReqs == 2
NumDirectShots == 2
MaxTurns == 2
MaxDirectPosts == 3
MaxChunks == 2
MaxErrWrites == 1
MaxClock == 1
NumHelpers == 2
MaxPairTurns == 2

\* request slots: a chat turn in flight; a screenshot request in flight, the
\* one made by chat turn r in slot r, those made by other clients after them
ChatReqs == 1..NumChatReqs
DirectShots == (NumChatReqs + 1)..(NumChatReqs + NumDirectShots)
ShotIds == ChatReqs \cup DirectShots
SessionIds == 1..(MaxTurns + 1)

\* ---------------------------------------------------------------- options
None == <<>>
Some(v) == <<v>>
IsSome(o) == Len(o) = 1
Val(o) == o[1]

\* supplied session ids that are not minted ids
NullId == -1
EmptyId == 0
BogusId == 99

\* ---------------------------------------------------------------- strings
Str(t) == <<t>>
EmptyStr == <<>>

URL_OK == <<"https://", "a.com", "/">>
URL_BARE == <<"https://", "a.com">>
URL_NOSCHEME == <<"a.com">>

Schemes == {"https://", "http://"}
Hosts == {"a.com"}

\* new URL(s) / z.string().url(): s parses as an absolute URL
ParsesAsUrl(s) == /\ Len(s) >= 2
                  /\ s[1] \in Schemes
                  /\ s[2] \in Hosts

\* new URL(s).toString(): an empty path is written as "/"
UrlToString(s) == IF Len(s) = 2 THEN s \o <<"/">> ELSE s

StartsWithScheme(s) == Len(s) >= 1 /\ s[1] \in Schemes

IsSpace(c) == c \in {" ", "\n"}

RECURSIVE TrimStart(_)
TrimStart(s) == IF s # <<>> /\ IsSpace(Head(s)) THEN TrimStart(Tail(s)) ELSE s

RECURSIVE TrimEnd(_)
TrimEnd(s) == IF s # <<>> /\ IsSpace(s[Len(s)])
              THEN TrimEnd(SubSeq(s, 1, Len(s) - 1)) ELSE s

\* String.prototype.trim
Trim(s) == TrimEnd(TrimStart(s))

UpperOf(c) == CASE c = "y" -> "Y"
                [] c = "e" -> "E"
                [] c = "s" -> "S"
                [] c = "n" -> "N"
                [] c = "o" -> "O"
                [] OTHER -> c

\* String.prototype.toUpperCase
ToUpperCase(s) == [i \in 1..Len(s) |-> UpperOf(s[i])]

\* ---------------------------------------------------------------- state
VARIABLES chatVariant, shotVariant, now, chatSessions, knownIds, nextMid,
          turns, directShots, outWrites, errWrites, chat, shot, getResp,
          helper, pair, probe

vars == <<chatVariant, shotVariant, now, chatSessions, knownIds, nextMid,
          turns, directShots, outWrites, errWrites, chat, shot, getResp,
          helper, pair, probe>>

\* a response leaves the server before the next handler runs
NoGet == [q |-> NullId, resp |-> None]
GetDelivered == getResp' = NoGet

\* ---------------------------------------------------------------- messages
APOLOGY == Str("I'm sorry, I encountered an error while processing your message. Please try again.")
CONTEXT_PREFIX == Str("Context: You are a helpful assistant ... User message: ")
ASK_URL_FC == Str("I'd like to take a screenshot, but I couldn't process the URL. Could you please provide a valid URL?")
ASK_URL_TWOCALL == Str("I'd be happy to take a screenshot for you, but I couldn't identify a specific website URL in your request.")

\* a ChatMessage object; mid is the identity of the object (the timestamp
\* field, which no handler reads, is left out)
ChatMessage(mid, role, content, isShot, shotUrl, shotData) ==
    [mid |-> mid, role |-> role, content |-> content,
     isScreenshot |-> isShot, screenshotUrl |-> shotUrl,
     screenshotBase64 |-> shotData]

PlainMessage(mid, role, content) ==
    ChatMessage(mid, role, content, None, None, None)

\* ---------------------------------------------------------------- chat store
\* mutant: the generator repeats itself
uuidv4Repeating(keys) == CHOOSE i \in SessionIds : \A j \in SessionIds : i <= j

\* uuidv4(): a token no stored session has
uuidv4(keys) == CHOOSE i \in SessionIds :
                    i \notin keys /\ \A j \in SessionIds : j < i => j \in keys

\* MessageSchema.parse(await req.json()) succeeds
MessageSchemaOk(body) == /\ body.json
                         /\ IsSome(body.message)
                         /\ Val(body.message) # EmptyStr

\* mutant: the lookup never finds the session
ReusesSessionNever(sessionId, store) == FALSE

\* sessionId && typeof sessionId === 'string' && chatSessions.has(sessionId)
ReusesSession(sessionId, store) == /\ sessionId # NullId
                                   /\ sessionId # EmptyId
                                   /\ sessionId \in DOMAIN store

\* mutant: a supplied id is taken as the key of the new session
NewSessionKeySupplied(sessionId, store) ==
    IF sessionId # NullId /\ sessionId # EmptyId THEN sessionId
    ELSE uuidv4(DOMAIN store)

\* the key under which the new session is stored
NewSessionKey(sessionId, store) == uuidv4(DOMAIN store)

\* "Get or create a chat session": the resolved key and the store afterwards
ResolveKey(sessionId, store) ==
    IF ReusesSession(sessionId, store) THEN sessionId
    ELSE NewSessionKey(sessionId, store)

\* mutant: a reused session keeps its old updatedAt
RefreshSessionNone(sess, t) == sess

\* existingSession.updatedAt = new Date()
RefreshSession(sess, t) == [sess EXCEPT !.updatedAt = t]

ResolveStore(sessionId, store, t) ==
    IF ReusesSession(sessionId, store)
    THEN [store EXCEPT ![sessionId] = RefreshSession(@, t)]
    ELSE LET k == NewSessionKey(sessionId, store)
         IN  (k :> [id |-> uuidv4(DOMAIN store), messages |-> <<>>,
                    createdAt |-> t, updatedAt |-> t]) @@ store

\* mutant: unshift instead of push
PushMessageFront(store, k, m) == [store EXCEPT ![k].messages = <<m>> \o @]

\* session.messages.push(m)
PushMessage(store, k, m) == [store EXCEPT ![k].messages = Append(@, m)]

\* ghost: every other turn in flight on session k sees one foreign append
CountForeign(ch, r, k) ==
    [q \in ChatReqs |->
        IF q # r /\ ch[q].pc \notin {"idle", "done"} /\ ch[q].sid = k
        THEN [ch[q] EXCEPT !.others = @ + 1] ELSE ch[q]]

\* ---------------------------------------------------------------- gemini.ts
\* mutant: system-role messages are kept
ValidMessagesKeepAll(msgs) == msgs

\* messages.filter(msg => msg.role === 'user' || msg.role === 'assistant')
ValidMessages(msgs) ==
    SelectSeq(msgs, LAMBDA m : m.role \in {"user", "assistant"})

\* the contents handed to generateContent
GeminiMessages(msgs) ==
    LET vm == ValidMessages(msgs)
    IN  [i \in 1..Len(vm) |->
            [role |-> IF vm[i].role = "assistant" THEN "model" ELSE "user",
             text |-> vm[i].content]]

\* two-call generateChatResponse: the first user message gets the context
\* prepended; validMessages shares its elements with session.messages
PrependsContext(msgs) ==
    LET vm == ValidMessages(msgs)
    IN  Len(vm) = 1 /\ vm[1].role = "user"

ContextualisedMessages(msgs) ==
    IF PrependsContext(msgs)
    THEN LET first == ValidMessages(msgs)[1]
         IN  [i \in 1..Len(msgs) |->
                 IF msgs[i].mid = first.mid
                 THEN [msgs[i] EXCEPT !.content = CONTEXT_PREFIX \o @]
                 ELSE msgs[i]]
    ELSE msgs

YES == <<"Y", "E", "S">>

\* mutant: the reply is compared as it is written
detectScreenshotIntentNoUpper(out) ==
    IF out.ok THEN Trim(out.reply) = YES ELSE FALSE

\* detectScreenshotIntent: out is the outcome of the LLM call
detectScreenshotIntent(out) ==
    IF out.ok THEN ToUpperCase(Trim(out.reply)) = YES ELSE FALSE

NO_URL_FOUND == Str("NO_URL_FOUND")

\* mutant: a reply without scheme is not tried with https://
extractUrlFromPromptNoPrefix(out) ==
    IF ~out.ok THEN None
    ELSE LET text == Trim(out.reply)
         IN  IF text = NO_URL_FOUND THEN None
             ELSE IF ParsesAsUrl(text) THEN Some(UrlToString(text))
             ELSE None

\* extractUrlFromPrompt: out is the outcome of the LLM call
extractUrlFromPrompt(out) ==
    IF ~out.ok THEN None
    ELSE LET text == Trim(out.reply)
         IN  IF text = NO_URL_FOUND THEN None
             ELSE IF ParsesAsUrl(text) THEN Some(UrlToString(text))
             ELSE IF ~StartsWithScheme(text)
                  THEN IF ParsesAsUrl(<<"https://">> \o text)
                       THEN Some(UrlToString(<<"https://">> \o text))
                       ELSE None
                  ELSE None

\* mutant: the failure of the call is not turned into the apology
FunctionCallResultNoCatch(out) ==
    [text |-> out.text, functionCall |-> out.functionCall]

\* function-calling generateChatResponse: the FunctionCallResult
FunctionCallResult(out) ==
    IF out.ok THEN [text |-> out.text, functionCall |-> out.functionCall]
    ELSE [text |-> APOLOGY, functionCall |-> None]

\* two-call generateChatResponse: the text
ResponseText(out) == IF out.ok THEN out.text ELSE APOLOGY

\* ---------------------------------------------------------------- screenshot route
\* the n-th chunk any helper writes to its stdout
Chunk(n) == IF n = 1 THEN Str("A") ELSE IF n = 2 THEN Str("B") ELSE Str("C")
StderrChunks == {<<" ">>, <<" ", "err", "\n">>}
ExitCodes == {0, 1, -1}      \* -1 stands for null (killed by a signal)
SPAWN_ERROR == Str("spawn node ENOENT")

NoError == [kind |-> "none", code |-> 0, text |-> EmptyStr]

ShotResponse(status, json, success, data, err) ==
    [status |-> status, json |-> json, success |-> success,
     base64Data |-> data, error |-> err]

IdleShot == [pc |-> "idle", valid |-> FALSE, spawnedUrl |-> None,
             stdoutData |-> EmptyStr, stderrData |-> EmptyStr,
             processError |-> None, written |-> <<>>,
             code |-> 0, resp |-> None]

\* RequestSchema.parse(await req.json()) succeeds
RequestSchemaOk(body) == /\ body.json
                         /\ IsSome(body.url)
                         /\ ParsesAsUrl(Val(body.url))

\* the answer to a request that fails validation: the first variant returns
\* the 400 response; the second throws it out of the handler, which no
\* caller catches, so the framework answers 500 with a non-JSON body
InvalidResponse(variant) ==
    IF variant = "v1"
    THEN ShotResponse(400, TRUE, FALSE, EmptyStr,
                      [kind |-> "invalid", code |-> 0, text |-> EmptyStr])
    ELSE ShotResponse(500, FALSE, FALSE, EmptyStr,
                      [kind |-> "unhandled", code |-> 0, text |-> EmptyStr])

\* POST up to the return of the promise: validate, then spawn the helper
ShotHandle(body, variant) ==
    IF RequestSchemaOk(body)
    THEN [IdleShot EXCEPT !.pc = "running", !.valid = TRUE,
                          !.spawnedUrl = Some(Val(body.url))]
    ELSE [IdleShot EXCEPT !.pc = "done", !.resp = Some(InvalidResponse(variant))]

\* mutant: = instead of +=
OnStdoutDataOverwrite(stdoutData, data) == data

\* child.stdout.on('data'): stdoutData += data.toString()
OnStdoutData(stdoutData, data) == stdoutData \o data

\* child.stderr.on('data')
OnStderrData(stderrData, data) ==
    LET errLine == Trim(data)
    IN  IF errLine # EmptyStr THEN stderrData \o errLine \o <<"\n">>
        ELSE stderrData

\* mutant: the branch for empty output is missing
OnCloseNoEmptyCheck(st, code) ==
    IF IsSome(st.processError)
    THEN ShotResponse(500, TRUE, FALSE, EmptyStr,
                      [kind |-> "spawn", code |-> 0, text |-> Val(st.processError)])
    ELSE IF code # 0
    THEN ShotResponse(500, TRUE, FALSE, EmptyStr,
                      [kind |-> "exit", code |-> code, text |-> st.stderrData])
    ELSE ShotResponse(200, TRUE, TRUE, st.stdoutData, NoError)

\* mutant: the exit code is looked at before the recorded 'error' event
OnCloseExitFirst(st, code) ==
    IF code # 0
    THEN ShotResponse(500, TRUE, FALSE, EmptyStr,
                      [kind |-> "exit", code |-> code, text |-> st.stderrData])
    ELSE IF IsSome(st.processError)
    THEN ShotResponse(500, TRUE, FALSE, EmptyStr,
                      [kind |-> "spawn", code |-> 0, text |-> Val(st.processError)])
    ELSE IF st.stdoutData = EmptyStr
    THEN ShotResponse(500, TRUE, FALSE, EmptyStr,
                      [kind |-> "empty", code |-> 0, text |-> EmptyStr])
    ELSE ShotResponse(200, TRUE, TRUE, st.stdoutData, NoError)

\* child.on('close', code)
OnClose(st, code) ==
    IF IsSome(st.processError)
    THEN ShotResponse(500, TRUE, FALSE, EmptyStr,
                      [kind |-> "spawn", code |-> 0, text |-> Val(st.processError)])
    ELSE IF code # 0
    THEN ShotResponse(500, TRUE, FALSE, EmptyStr,
                      [kind |-> "exit", code |-> code, text |-> st.stderrData])
    ELSE IF st.stdoutData = EmptyStr
    THEN ShotResponse(500, TRUE, FALSE, EmptyStr,
                      [kind |-> "empty", code |-> 0, text |-> EmptyStr])
    ELSE ShotResponse(200, TRUE, TRUE, st.stdoutData, NoError)

\* `${code}`
CodeText(code) == CASE code = 0 -> "0" [] code = 1 -> "1" [] OTHER -> "null"

\* the text of the error field of a failure response
ErrorText(err) ==
    CASE err.kind = "spawn" -> Str("Failed to start screenshot process: ") \o err.text
      [] err.kind = "exit" -> <<"Screenshot script failed (code ", CodeText(err.code),
                                "). Check server logs. Output: ">> \o err.text
      [] err.kind = "empty" -> Str("Screenshot script succeeded but returned no data.")
      [] OTHER -> Str("Invalid request body or URL.")

ShotBodies == {[json |-> FALSE, url |-> None],
               [json |-> TRUE, url |-> None],
               [json |-> TRUE, url |-> Some(EmptyStr)],
               [json |-> TRUE, url |-> Some(URL_NOSCHEME)],
               [json |-> TRUE, url |-> Some(URL_OK)]}

\* what the handler keeps of a finished request: its response
Finished(st, code, resp) ==
    [IdleShot EXCEPT !.pc = "done", !.valid = st.valid,
                     !.spawnedUrl = st.spawnedUrl, !.code = code,
                     !.resp = Some(resp)]

\* a chat turn in flight: its position (pc), its locals, what it did so far
IdleChat == [pc |-> "idle", validated |-> FALSE, sid |-> 0,
             userMid |-> 0, startLen |-> 0, others |-> 0, created |-> FALSE,
             llmCalls |-> 0, intent |-> FALSE, extractedUrl |-> None,
             text |-> EmptyStr, sent |-> <<>>, resp |-> None]

InFlight(rec) == rec.pc \notin {"idle", "done"}

\* the response of a finished chat turn is delivered
DeliverChat(ch) ==
    [q \in ChatReqs |-> IF ch[q].pc = "done" THEN IdleChat ELSE ch[q]]

\* the response of a client's request is delivered; the one of a chat turn
\* stays until that turn reads it
DeliverShot(sh) ==
    [k \in ShotIds |->
        IF k \in DirectShots /\ sh[k].pc = "done" THEN IdleShot ELSE sh[k]]

\* a client posts to /api/screenshot
DirectShotPost(k, body) ==
    /\ k \in DirectShots
    /\ shot[k].pc \in {"idle", "done"}
    /\ \A j \in DirectShots : j < k => shot[j].pc = "running"
    /\ directShots < MaxDirectPosts
    /\ directShots' = directShots + 1
    /\ shot' = [DeliverShot(shot) EXCEPT ![k] = ShotHandle(body, shotVariant)]
    /\ chat' = DeliverChat(chat)
    /\ GetDelivered
    /\ UNCHANGED <<pair, probe, helper, chatVariant, shotVariant, now, chatSessions, knownIds,
                   nextMid, turns, outWrites, errWrites>>

\* mutant: stdoutData is one variable of the module, shared by the requests
ChildStdoutShared(k) ==
    /\ shot[k].pc = "running"
    /\ outWrites < MaxChunks
    /\ outWrites' = outWrites + 1
    /\ shot' = [j \in ShotIds |->
                  IF j = k
                  THEN [shot[j] EXCEPT
                          !.stdoutData = OnStdoutData(@, Chunk(outWrites + 1)),
                          !.written = Append(@, Chunk(outWrites + 1))]
                  ELSE IF shot[j].pc = "running"
                  THEN [shot[j] EXCEPT
                          !.stdoutData = OnStdoutData(@, Chunk(outWrites + 1))]
                  ELSE DeliverShot(shot)[j]]
    /\ chat' = DeliverChat(chat)
    /\ GetDelivered
    /\ UNCHANGED <<pair, probe, helper, chatVariant, shotVariant, now, chatSessions, knownIds,
                   nextMid, turns, directShots, errWrites>>

\* the helper writes a chunk to stdout and the 'data' handler receives it
ChildStdout(k) ==
    /\ shot[k].pc = "running"
    /\ outWrites < MaxChunks
    /\ outWrites' = outWrites + 1
    /\ shot' = [DeliverShot(shot) EXCEPT
                   ![k].stdoutData = OnStdoutData(@, Chunk(outWrites + 1)),
                   ![k].written = Append(@, Chunk(outWrites + 1))]
    /\ chat' = DeliverChat(chat)
    /\ GetDelivered
    /\ UNCHANGED <<pair, probe, helper, chatVariant, shotVariant, now, chatSessions, knownIds,
                   nextMid, turns, directShots, errWrites>>

\* the helper writes to stderr and the 'data' handler receives it
ChildStderr(k, data) ==
    /\ shot[k].pc = "running"
    /\ errWrites < MaxErrWrites
    /\ errWrites' = errWrites + 1
    /\ shot' = [DeliverShot(shot) EXCEPT ![k].stderrData = OnStderrData(@, data)]
    /\ chat' = DeliverChat(chat)
    /\ GetDelivered
    /\ UNCHANGED <<pair, probe, helper, chatVariant, shotVariant, now, chatSessions, knownIds,
                   nextMid, turns, directShots, outWrites>>

\* mutant: the 'error' handler resolves the promise itself
ChildErrorResolves(k) ==
    /\ shot[k].pc = "running"
    /\ shot[k].processError = None
    /\ shot' = [DeliverShot(shot) EXCEPT
                   ![k] = Finished(shot[k], 0,
                             ShotResponse(500, TRUE, FALSE, EmptyStr,
                                [kind |-> "spawn", code |-> 0, text |-> SPAWN_ERROR]))]
    /\ chat' = DeliverChat(chat)
    /\ GetDelivered
    /\ UNCHANGED <<pair, probe, helper, chatVariant, shotVariant, now, chatSessions, knownIds,
                   nextMid, turns, directShots, outWrites, errWrites>>

\* child.on('error'): recorded, no response yet
ChildError(k) ==
    /\ shot[k].pc = "running"
    /\ shot[k].processError = None
    /\ shot' = [DeliverShot(shot) EXCEPT ![k].processError = Some(SPAWN_ERROR)]
    /\ chat' = DeliverChat(chat)
    /\ GetDelivered
    /\ UNCHANGED <<pair, probe, helper, chatVariant, shotVariant, now, chatSessions, knownIds,
                   nextMid, turns, directShots, outWrites, errWrites>>

\* child.on('close'): the only place the promise is resolved
ChildClose(k, code) ==
    /\ shot[k].pc = "running"
    /\ shot' = [DeliverShot(shot) EXCEPT
                   ![k] = Finished(shot[k], code, OnClose(shot[k], code))]
    /\ chat' = DeliverChat(chat)
    /\ GetDelivered
    /\ UNCHANGED <<pair, probe, helper, chatVariant, shotVariant, now, chatSessions, knownIds,
                   nextMid, turns, directShots, outWrites, errWrites>>

\* ---------------------------------------------------------------- chat route
ChatResponse(status, success, sessionId, msg, url, intent) ==
    [status |-> status, success |-> success, sessionId |-> sessionId,
     response |-> msg, extractedUrl |-> url, isScreenshotIntent |-> intent]

\* the catch of POST: every exception, validation included, is answered 500
ChatErrorResponse == ChatResponse(500, FALSE, 0, None, None, FALSE)

\* what is left of a turn once its response is returned
Returned(validated, created, llmCalls, resp) ==
    [IdleChat EXCEPT !.pc = "done", !.validated = validated,
                     !.created = created, !.llmCalls = llmCalls,
                     !.resp = Some(resp)]

Messages == {None, Some(EmptyStr), Some(Str("hello"))}
SuppliedIds == {NullId, EmptyId, BogusId} \cup knownIds
ChatBodies == {[json |-> FALSE, sessionId |-> NullId, message |-> None]}
              \cup [json : {TRUE}, sessionId : SuppliedIds, message : Messages]

\* mutant: the model is invoked before the user message is appended
ChatPostInvokesFirst(r, body) ==
    /\ ~InFlight(chat[r])
    /\ \A q \in ChatReqs : q < r => InFlight(chat[q])
    /\ turns < MaxTurns
    /\ turns' = turns + 1
    /\ IF ~MessageSchemaOk(body)
       THEN /\ chat' = [DeliverChat(chat) EXCEPT
                           ![r] = Returned(FALSE, FALSE, 0, ChatErrorResponse)]
            /\ UNCHANGED <<chatSessions, nextMid>>
       ELSE LET k == ResolveKey(body.sessionId, chatSessions)
                store1 == ResolveStore(body.sessionId, chatSessions, now)
                userMessage == PlainMessage(nextMid, "user", Val(body.message))
                store2 == PushMessage(store1, k, userMessage)
            IN  /\ chatSessions' = store2
                /\ nextMid' = nextMid + 1
                /\ chat' = [CountForeign(DeliverChat(chat), r, k) EXCEPT ![r] =
                      [IdleChat EXCEPT
                         !.pc = IF chatVariant = "fc" THEN "llm" ELSE "intent",
                         !.validated = TRUE,
                         !.sid = k,
                         !.userMid = userMessage.mid,
                         !.startLen = Len(store1[k].messages),
                         !.created = ~ReusesSession(body.sessionId, chatSessions),
                         !.llmCalls = 1,
                         !.sent = IF chatVariant = "fc"
                                  THEN GeminiMessages(store1[k].messages)
                                  ELSE <<>>]]
    /\ shot' = DeliverShot(shot)
    /\ GetDelivered
    /\ UNCHANGED <<pair, probe, helper, chatVariant, shotVariant, now, knownIds, directShots,
                   outWrites, errWrites>>

\* POST from its start to its first await on the model: validation, session
\* resolution, push of the user message, start of the first LLM call
ChatPost(r, body) ==
    /\ ~InFlight(chat[r])
    /\ \A q \in ChatReqs : q < r => InFlight(chat[q])
    /\ turns < MaxTurns
    /\ turns' = turns + 1
    /\ IF ~MessageSchemaOk(body)
       THEN /\ chat' = [DeliverChat(chat) EXCEPT
                           ![r] = Returned(FALSE, FALSE, 0, ChatErrorResponse)]
            /\ UNCHANGED <<chatSessions, nextMid>>
       ELSE LET k == ResolveKey(body.sessionId, chatSessions)
                store1 == ResolveStore(body.sessionId, chatSessions, now)
                userMessage == PlainMessage(nextMid, "user", Val(body.message))
                store2 == PushMessage(store1, k, userMessage)
            IN  /\ chatSessions' = store2
                /\ nextMid' = nextMid + 1
                /\ chat' = [CountForeign(DeliverChat(chat), r, k) EXCEPT ![r] =
                      [IdleChat EXCEPT
                         !.pc = IF chatVariant = "fc" THEN "llm" ELSE "intent",
                         !.validated = TRUE,
                         !.sid = k,
                         !.userMid = userMessage.mid,
                         !.startLen = Len(store1[k].messages),
                         !.created = ~ReusesSession(body.sessionId, chatSessions),
                         !.llmCalls = 1,
                         !.sent = IF chatVariant = "fc"
                                  THEN GeminiMessages(store2[k].messages)
                                  ELSE <<>>]]
    /\ shot' = DeliverShot(shot)
    /\ GetDelivered
    /\ UNCHANGED <<pair, probe, helper, chatVariant, shotVariant, now, knownIds, directShots,
                   outWrites, errWrites>>

\* mutant: the assistant message is returned but not stored
RespondNoPush(r, msg, url, intent) ==
    LET k == chat[r].sid
    IN  /\ chatSessions' = chatSessions
        /\ nextMid' = nextMid + 1
        /\ knownIds' = knownIds \cup {chatSessions[k].id}
        /\ chat' = [CountForeign(DeliverChat(chat), r, k) EXCEPT ![r] =
              Returned(TRUE, chat[r].created, chat[r].llmCalls,
                       ChatResponse(200, TRUE, chatSessions[k].id, Some(msg),
                                    url, intent))]

\* "Add assistant message to the session" and "Return the response"
Respond(r, msg, url, intent) ==
    LET k == chat[r].sid
    IN  /\ chatSessions' = PushMessage(chatSessions, k, msg)
        /\ nextMid' = nextMid + 1
        /\ knownIds' = knownIds \cup {chatSessions[k].id}
        /\ chat' = [CountForeign(DeliverChat(chat), r, k) EXCEPT ![r] =
              Returned(TRUE, chat[r].created, chat[r].llmCalls,
                       ChatResponse(200, TRUE, chatSessions[k].id, Some(msg),
                                    url, intent))]

\* mutant: only null and undefined count as no url
UsableUrlAnyString(extractedUrl) == IsSome(extractedUrl)

\* `&& extractedUrl`, `if (extractedUrl)`: neither null, undefined nor ''
UsableUrl(extractedUrl) == IsSome(extractedUrl) /\ Val(extractedUrl) # EmptyStr

\* mutant: the url is left out of the screenshot message
ScreenshotMessageNoUrl(text, url, data) ==
    ChatMessage(nextMid, "assistant", text, Some(TRUE), None, Some(data))

\* the assistant message of each branch
ScreenshotMessage(text, url, data) ==
    ChatMessage(nextMid, "assistant", text, Some(TRUE), Some(url), Some(data))

\* mutant: the error of the endpoint is left out of the text
ScreenshotFailedMessageNoReason(url, err) ==
    PlainMessage(nextMid, "assistant",
                 Str("I tried to take a screenshot of ") \o url
                   \o Str(", but encountered an error: "))

ScreenshotFailedMessage(url, err) ==
    PlainMessage(nextMid, "assistant",
                 Str("I tried to take a screenshot of ") \o url
                   \o Str(", but encountered an error: ") \o err)

ScreenshotThrewMessage(err) ==
    PlainMessage(nextMid, "assistant",
                 Str("I tried to take a screenshot, but encountered an error: ") \o err)

\* mutant: the screenshot flag is set on a plain message
TextMessageFlagged(text) ==
    ChatMessage(nextMid, "assistant", text, Some(FALSE), None, None)

\* mutant: the reply is stored under the role of the user
TextMessageAsUser(text) == PlainMessage(nextMid, "user", text)

TextMessage(text) == PlainMessage(nextMid, "assistant", text)

\* await fetch('/api/screenshot', {url}): the request reaches the screenshot
\* route, which runs up to its promise, or the fetch itself rejects
CallScreenshotApi(r, text, url, intent) ==
    \E netOk \in BOOLEAN :
        IF netOk
        THEN /\ shot' = [DeliverShot(shot) EXCEPT ![r] =
                            ShotHandle([json |-> TRUE, url |-> Some(url)], shotVariant)]
             /\ chat' = [DeliverChat(chat) EXCEPT
                            ![r].pc = "fetch", ![r].intent = intent,
                            ![r].extractedUrl = Some(url), ![r].text = text,
                            ![r].sent = <<>>]
             /\ UNCHANGED <<chatSessions, nextMid, knownIds>>
        ELSE /\ Respond(r, ScreenshotThrewMessage(Str("fetch failed")), Some(url), intent)
             /\ shot' = DeliverShot(shot)

\* outcomes of the LLM calls
IntentOutcomes == {[ok |-> FALSE, reply |-> EmptyStr],
                   [ok |-> TRUE, reply |-> <<"N", "O">>],
                   [ok |-> TRUE, reply |-> <<" ", "y", "e", "s", "\n">>]}

ExtractOutcomes == {[ok |-> FALSE, reply |-> EmptyStr],
                    [ok |-> TRUE, reply |-> NO_URL_FOUND],
                    [ok |-> TRUE, reply |-> URL_BARE],
                    [ok |-> TRUE, reply |-> URL_NOSCHEME],
                    [ok |-> TRUE, reply |-> <<"http://">>]}

TAKE_SCREENSHOT == "take_screenshot"

FunctionCalls == {None,
                  Some([name |-> TAKE_SCREENSHOT, url |-> None]),
                  Some([name |-> TAKE_SCREENSHOT, url |-> Some(EmptyStr)]),
                  Some([name |-> TAKE_SCREENSHOT, url |-> Some(URL_NOSCHEME)]),
                  Some([name |-> TAKE_SCREENSHOT, url |-> Some(URL_OK)]),
                  Some([name |-> "other", url |-> Some(URL_OK)])}

FcOutcomes == {[ok |-> FALSE, text |-> EmptyStr, functionCall |-> None]}
              \cup [ok : {TRUE}, text : {Str("reply")}, functionCall : FunctionCalls]

\* two-call POST: detectScreenshotIntent has returned
IntentReturn(r, out) ==
    /\ chatVariant = "twoCall"
    /\ chat[r].pc = "intent"
    /\ IF detectScreenshotIntent(out)
       THEN /\ chat' = [DeliverChat(chat) EXCEPT
                           ![r].pc = "extract", ![r].intent = TRUE,
                           ![r].llmCalls = @ + 1]
            /\ UNCHANGED chatSessions
       ELSE LET k == chat[r].sid
                msgs == chatSessions[k].messages
            IN  /\ chatSessions' = [chatSessions EXCEPT
                                      ![k].messages = ContextualisedMessages(msgs)]
                /\ chat' = [DeliverChat(chat) EXCEPT
                              ![r].pc = "llm", ![r].intent = FALSE,
                              ![r].llmCalls = @ + 1,
                              ![r].sent = GeminiMessages(ContextualisedMessages(msgs))]
    /\ shot' = DeliverShot(shot)
    /\ GetDelivered
    /\ UNCHANGED <<pair, probe, helper, chatVariant, shotVariant, now, knownIds, nextMid, turns,
                   directShots, outWrites, errWrites>>

\* two-call POST: extractUrlFromPrompt has returned
ExtractReturn(r, out) ==
    /\ chatVariant = "twoCall"
    /\ chat[r].pc = "extract"
    /\ LET extractedUrl == extractUrlFromPrompt(out)
       IN  IF UsableUrl(extractedUrl)
           THEN CallScreenshotApi(r, Str("I've taken a screenshot of ")
                                       \o Val(extractedUrl) \o Str(" for you."),
                                  Val(extractedUrl), TRUE)
           ELSE /\ Respond(r, TextMessage(ASK_URL_TWOCALL), extractedUrl, TRUE)
                /\ shot' = DeliverShot(shot)
    /\ GetDelivered
    /\ UNCHANGED <<pair, probe, helper, chatVariant, shotVariant, now, turns, directShots,
                   outWrites, errWrites>>

\* generateChatResponse has returned
GenerateReturn(r, out) ==
    /\ chat[r].pc = "llm"
    /\ IF chatVariant = "fc"
       THEN LET response == FunctionCallResult(out)
                isScreenshotIntent ==
                    /\ IsSome(response.functionCall)
                    /\ Val(response.functionCall).name = TAKE_SCREENSHOT
                extractedUrl == IF isScreenshotIntent
                                THEN Val(response.functionCall).url ELSE None
            IN  IF isScreenshotIntent /\ UsableUrl(extractedUrl)
                THEN CallScreenshotApi(r, response.text, Val(extractedUrl), TRUE)
                ELSE /\ Respond(r, IF isScreenshotIntent
                                   THEN TextMessage(ASK_URL_FC)
                                   ELSE TextMessage(response.text),
                                extractedUrl, isScreenshotIntent)
                     /\ shot' = DeliverShot(shot)
       ELSE /\ out.functionCall = None
            /\ Respond(r, TextMessage(ResponseText(out)), None, FALSE)
            /\ shot' = DeliverShot(shot)
    /\ GetDelivered
    /\ UNCHANGED <<pair, probe, helper, chatVariant, shotVariant, now, turns, directShots,
                   outWrites, errWrites>>

\* mutant: a screenshot that failed is requested once more
FetchReturnRetry(r) ==
    /\ chat[r].pc = "fetch"
    /\ shot[r].pc = "done"
    /\ LET screenshotResult == Val(shot[r].resp)
           url == Val(chat[r].extractedUrl)
       IN  IF screenshotResult.json /\ screenshotResult.success
           THEN /\ Respond(r, ScreenshotMessage(chat[r].text, url,
                                                screenshotResult.base64Data),
                           chat[r].extractedUrl, chat[r].intent)
                /\ shot' = [DeliverShot(shot) EXCEPT ![r] = IdleShot]
           ELSE /\ shot' = [DeliverShot(shot) EXCEPT ![r] =
                              ShotHandle([json |-> TRUE, url |-> Some(url)],
                                         shotVariant)]
                /\ chat' = DeliverChat(chat)
                /\ UNCHANGED <<chatSessions, nextMid, knownIds>>
    /\ GetDelivered
    /\ UNCHANGED <<pair, probe, helper, chatVariant, shotVariant, now, turns, directShots,
                   outWrites, errWrites>>

\* the fetch of the screenshot route has resolved: screenshotResponse.json()
FetchReturn(r) ==
    /\ chat[r].pc = "fetch"
    /\ shot[r].pc = "done"
    /\ LET screenshotResult == Val(shot[r].resp)
           url == Val(chat[r].extractedUrl)
           msg == IF ~screenshotResult.json
                  THEN ScreenshotThrewMessage(Str("Unexpected token"))
                  ELSE IF screenshotResult.success
                  THEN ScreenshotMessage(chat[r].text, url, screenshotResult.base64Data)
                  ELSE ScreenshotFailedMessage(url, ErrorText(screenshotResult.error))
       IN  Respond(r, msg, chat[r].extractedUrl, chat[r].intent)
    /\ shot' = [DeliverShot(shot) EXCEPT ![r] = IdleShot]
    /\ GetDelivered
    /\ UNCHANGED <<pair, probe, helper, chatVariant, shotVariant, now, turns, directShots,
                   outWrites, errWrites>>

\* ---------------------------------------------------------------- history GET
GetResponse(status, success, sessionId, messages, createdAt, updatedAt) ==
    [status |-> status, success |-> success, sessionId |-> sessionId,
     messages |-> messages, createdAt |-> createdAt, updatedAt |-> updatedAt]

\* GET: q is url.searchParams.get('sessionId'), NullId when absent
GetHandle(q, store) ==
    IF q = NullId \/ q = EmptyId
    THEN GetResponse(400, FALSE, 0, <<>>, 0, 0)
    ELSE IF q \notin DOMAIN store
    THEN GetResponse(404, FALSE, 0, <<>>, 0, 0)
    ELSE GetResponse(200, TRUE, store[q].id, store[q].messages,
                     store[q].createdAt, store[q].updatedAt)

\* mutant: the GET refreshes updatedAt like a turn does
GetStoreTouch(q, store, t) ==
    IF q \in DOMAIN store THEN [store EXCEPT ![q].updatedAt = t] ELSE store

\* the store after a GET
GetStore(q, store, t) == store

GetQueries == {NullId, EmptyId, BogusId} \cup knownIds

Get(q) ==
    /\ getResp' = [q |-> q, resp |-> Some(GetHandle(q, chatSessions))]
    /\ chatSessions' = GetStore(q, chatSessions, now)
    /\ chat' = DeliverChat(chat)
    /\ shot' = DeliverShot(shot)
    /\ UNCHANGED <<pair, probe, helper, chatVariant, shotVariant, now, knownIds, nextMid, turns,
                   directShots, outWrites, errWrites>>

\* ---------------------------------------------------------------- clock
\* the wall clock read by new Date() advances
Tick ==
    /\ now < MaxClock
    /\ now' = now + 1
    /\ UNCHANGED <<pair, probe, helper, chatVariant, shotVariant, chatSessions, knownIds, nextMid,
                   turns, directShots, outWrites, errWrites, chat, shot, getResp>>

\* ---------------------------------------------------------------- helper script
\* runs of scripts/take-screenshot.mjs, in its two versions
Helpers == 1..NumHelpers
HelperVariants == {"functional", "imperative"}

\* process.argv[2]
HelperArgs == {None, Some(URL_NOSCHEME), Some(URL_OK)}

\* result.content[0] of the browser_screen_capture call, None when absent
CaptureContents == {None,
                    Some([type |-> "image", data |-> Str("A")]),
                    Some([type |-> "image", data |-> EmptyStr]),
                    Some([type |-> "text", data |-> Str("A")])}

\* what console.log({ error }) prints
ZOD_ERROR_DUMP == "{ error: ZodError }\n"

\* a run of the helper: position, argument, what it wrote to stdout and to
\* stderr, its exit code; image is the payload of the capture (ghost),
\* pending the exit code to use once disconnect() returns
IdleHelper(variant) ==
    [pc |-> "idle", variant |-> variant, url |-> None, stdout |-> EmptyStr,
     stderr |-> <<>>, exit |-> None, image |-> None, pending |-> 0]

\* console.error / logError
LogError(hp, line) == [hp EXCEPT !.stderr = Append(@, line)]

\* process.stdout.write(data)
WriteOutput(hp, data) == [hp EXCEPT !.stdout = @ \o data]

\* console.log(...)
ConsoleLog(hp, line) == [hp EXCEPT !.stdout = @ \o <<line>>]

\* process.exit(code)
Exit(hp, code) == [hp EXCEPT !.pc = "exited", !.exit = Some(code)]

\* UrlSchema.parse(targetUrl) succeeds
UrlSchemaOk(arg) == IsSome(arg) /\ ParsesAsUrl(Val(arg))

\* validation of the argument, up to `await client.connect(transport)`
ValidateArg(hp, arg) ==
    IF UrlSchemaOk(arg)
    THEN [hp EXCEPT !.pc = "connect", !.url = arg]
    ELSE IF hp.variant = "functional"
    THEN Exit(LogError(ConsoleLog(hp, ZOD_ERROR_DUMP), "Invalid URL provided: "), 1)
    ELSE Exit(LogError(hp, "Invalid URL provided: "), 1)

\* mutant: the type of the content is not looked at
HasValidImageDataAnyType(content) ==
    /\ IsSome(content)
    /\ Val(content).data # EmptyStr

\* if (hasValidImageData): content[0].data is truthy and the type is 'image'
HasValidImageData(content) ==
    /\ IsSome(content)
    /\ Val(content).data # EmptyStr
    /\ Val(content).type = "image"

\* the extraction of the payload and the write to stdout
WritePayload(hp, content) ==
    IF HasValidImageData(content)
    THEN WriteOutput([LogError(hp, "Successfully extracted base64 data")
                         EXCEPT !.image = Some(Val(content).data)],
                     Val(content).data)
    ELSE IF hp.variant = "functional"
    THEN WriteOutput(LogError(hp, "Could not find base64 data"), EmptyStr)
    ELSE LogError(WriteOutput(LogError(hp, "Could not find base64 data"), EmptyStr),
                  "No base64 data extracted, writing empty stdout.")

\* the finally block, connected being client.state === 'connected', and the
\* exit that follows when disconnect() is not called
Finally(hp, connected, code) ==
    IF connected
    THEN [LogError(hp, "Disconnecting MCP client...")
             EXCEPT !.pc = "disconnect", !.pending = code]
    ELSE Exit(hp, code)

\* a rejected await: the imperative catch logs and exits at once; the
\* functional finally runs first, the catch of withErrorHandling after it
Fail(hp, connected) ==
    IF hp.variant = "imperative"
    THEN Exit(LogError(hp, "MCP Script Error: "), 1)
    ELSE IF connected
    THEN Finally(hp, TRUE, 1)
    ELSE Exit(LogError(hp, "MCP Script Error: "), 1)

\* the script is started with argument arg
HelperRun(h, arg) ==
    /\ helper[h].pc = "idle"
    /\ \A j \in Helpers : j < h => helper[j].pc # "idle"
    /\ helper' = [helper EXCEPT ![h] = ValidateArg(@, arg)]
    /\ UNCHANGED <<pair, probe, chatVariant, shotVariant, now, chatSessions,
                   knownIds, nextMid, turns, directShots, outWrites, errWrites, chat,
                   shot, getResp>>

\* client.connect(transport) has settled
HelperConnected(h, ok, connected) ==
    /\ helper[h].pc = "connect"
    /\ helper' = [helper EXCEPT ![h] =
          IF ok THEN [LogError(@, "MCP Client connected. Navigating to: ")
                         EXCEPT !.pc = "navigate"]
          ELSE Fail(@, connected)]
    /\ UNCHANGED <<pair, probe, chatVariant, shotVariant, now, chatSessions,
                   knownIds, nextMid, turns, directShots, outWrites, errWrites, chat,
                   shot, getResp>>

\* callTool browser_navigate has settled
HelperNavigated(h, ok, connected) ==
    /\ helper[h].pc = "navigate"
    /\ helper' = [helper EXCEPT ![h] =
          IF ok THEN [LogError(@, "Navigation complete. Taking screenshot...")
                         EXCEPT !.pc = "capture"]
          ELSE Fail(@, connected)]
    /\ UNCHANGED <<pair, probe, chatVariant, shotVariant, now, chatSessions,
                   knownIds, nextMid, turns, directShots, outWrites, errWrites, chat,
                   shot, getResp>>

\* callTool browser_screen_capture has settled
HelperCaptured(h, ok, content, connected) ==
    /\ helper[h].pc = "capture"
    /\ helper' = [helper EXCEPT ![h] =
          IF ok
          THEN Finally(WritePayload(LogError(LogError(@,
                          "Screenshot taken. Processing result..."),
                          "MCP Screenshot RAW Result: "), content),
                       connected, 0)
          ELSE Fail(@, connected)]
    /\ UNCHANGED <<pair, probe, chatVariant, shotVariant, now, chatSessions,
                   knownIds, nextMid, turns, directShots, outWrites, errWrites, chat,
                   shot, getResp>>

\* client.disconnect() has settled: the rest of the finally block, then
\* the exit; a rejection reaches the catch of withErrorHandling, or, in the
\* imperative version, nobody (the process dies of the unhandled rejection)
HelperDisconnected(h, ok) ==
    /\ helper[h].pc = "disconnect"
    /\ helper' = [helper EXCEPT ![h] =
          IF ok
          THEN IF @.variant = "functional" /\ @.pending = 1
               THEN Exit(LogError(LogError(@, "MCP Client disconnected."),
                                  "MCP Script Error: "), 1)
               ELSE Exit(LogError(@, "MCP Client disconnected."), @.pending)
          ELSE Exit(LogError(@, "MCP Script Error: "), 1)]
    /\ UNCHANGED <<pair, probe, chatVariant, shotVariant, now, chatSessions,
                   knownIds, nextMid, turns, directShots, outWrites, errWrites, chat,
                   shot, getResp>>

\* ---------------------------------------------------------------- whole turns
\* one chat turn run from request to response with no other handler in
\* between, in each of the two versions of the chat route, so that the two
\* can be driven side by side

\* what the model makes of the user's message: whether it asks for a
\* screenshot, and the url it reads in the message
Decisions == [intent : BOOLEAN,
              url : {None, Some(URL_NOSCHEME), Some(URL_BARE), Some(URL_OK)}]

\* the function-calling model voices a decision as a function call
FcOutcomeOf(d) ==
    [ok |-> TRUE, text |-> Str("reply"),
     functionCall |-> IF d.intent
                      THEN Some([name |-> TAKE_SCREENSHOT, url |-> d.url])
                      ELSE None]

\* the two-call model voices it as YES / NO, then as the url or NO_URL_FOUND
IntentOutcomeOf(d) ==
    [ok |-> TRUE, reply |-> IF d.intent THEN YES ELSE <<"N", "O">>]

ExtractOutcomeOf(d) ==
    [ok |-> TRUE, reply |-> IF IsSome(d.url) THEN Val(d.url) ELSE NO_URL_FOUND]

\* what the helper does once spawned: its exit code and what it wrote
ShotOutcomes == {[code |-> 0, stdout |-> Chunk(1)],
                 [code |-> 0, stdout |-> EmptyStr],
                 [code |-> 1, stdout |-> EmptyStr]}

\* the screenshot route from request to response
ShotResult(url, o, variant) ==
    LET st == ShotHandle([json |-> TRUE, url |-> Some(url)], variant)
    IN  IF st.pc = "done" THEN Val(st.resp)
        ELSE OnClose([st EXCEPT !.stdoutData = OnStdoutData(@, o.stdout)], o.code)

\* the assistant message for the answer of the screenshot route
ScreenshotResultMessage(screenshotResult, text, url) ==
    IF ~screenshotResult.json
    THEN ScreenshotThrewMessage(Str("Unexpected token"))
    ELSE IF screenshotResult.success
    THEN ScreenshotMessage(text, url, screenshotResult.base64Data)
    ELSE ScreenshotFailedMessage(url, ErrorText(screenshotResult.error))

\* the store and the response after the assistant message is pushed
TurnEnd(store, k, msg, url, intent) ==
    LET assistantMessage == [msg EXCEPT !.mid = nextMid + 1]
    IN  [store |-> PushMessage(store, k, assistantMessage),
         resp |-> ChatResponse(200, TRUE, store[k].id, Some(assistantMessage),
                               url, intent)]

\* POST of the function-calling route
FcTurn(store, body, d, o) ==
    IF ~MessageSchemaOk(body) THEN [store |-> store, resp |-> ChatErrorResponse]
    ELSE LET k == ResolveKey(body.sessionId, store)
             store1 == ResolveStore(body.sessionId, store, now)
             userMessage == PlainMessage(nextMid, "user", Val(body.message))
             store2 == PushMessage(store1, k, userMessage)
             response == FunctionCallResult(FcOutcomeOf(d))
             isScreenshotIntent ==
                 /\ IsSome(response.functionCall)
                 /\ Val(response.functionCall).name = TAKE_SCREENSHOT
             extractedUrl == IF isScreenshotIntent
                             THEN Val(response.functionCall).url ELSE None
             msg == IF isScreenshotIntent /\ UsableUrl(extractedUrl)
                    THEN ScreenshotResultMessage(
                            ShotResult(Val(extractedUrl), o, shotVariant),
                            response.text, Val(extractedUrl))
                    ELSE IF isScreenshotIntent THEN TextMessage(ASK_URL_FC)
                    ELSE TextMessage(response.text)
         IN  TurnEnd(store2, k, msg, extractedUrl, isScreenshotIntent)

\* POST of the two-call route
TwoCallTurn(store, body, d, o) ==
    IF ~MessageSchemaOk(body) THEN [store |-> store, resp |-> ChatErrorResponse]
    ELSE LET k == ResolveKey(body.sessionId, store)
             store1 == ResolveStore(body.sessionId, store, now)
             userMessage == PlainMessage(nextMid, "user", Val(body.message))
             store2 == PushMessage(store1, k, userMessage)
             isScreenshotIntent == detectScreenshotIntent(IntentOutcomeOf(d))
         IN  IF isScreenshotIntent
             THEN LET extractedUrl == extractUrlFromPrompt(ExtractOutcomeOf(d))
                      msg == IF UsableUrl(extractedUrl)
                             THEN ScreenshotResultMessage(
                                     ShotResult(Val(extractedUrl), o, shotVariant),
                                     Str("I've taken a screenshot of ")
                                        \o Val(extractedUrl) \o Str(" for you."),
                                     Val(extractedUrl))
                             ELSE TextMessage(ASK_URL_TWOCALL)
                  IN  TurnEnd(store2, k, msg, extractedUrl, TRUE)
             ELSE LET store3 ==
                          [store2 EXCEPT
                             ![k].messages = ContextualisedMessages(@)]
                      responseText ==
                          ResponseText([ok |-> TRUE, text |-> Str("reply")])
                  IN  TurnEnd(store3, k, TextMessage(responseText), None, FALSE)

\* the two routes side by side: their stores and their last responses
NoPair == [turns |-> 0, fc |-> <<>>, twoCall |-> <<>>,
           fcResp |-> None, twoCallResp |-> None]

PairBodies == [json : {TRUE},
               sessionId : {NullId, BogusId} \cup DOMAIN pair.fc,
               message : Messages]

\* the same request reaches both routes, the model takes the same decision
\* in both and the helper, where spawned, does the same
PairTurn(body, d, o) ==
    /\ pair.turns < MaxPairTurns
    /\ LET f == FcTurn(pair.fc, body, d, o)
           t == TwoCallTurn(pair.twoCall, body, d, o)
       IN  pair' = [turns |-> pair.turns + 1,
                    fc |-> f.store, twoCall |-> t.store,
                    fcResp |-> Some(f.resp), twoCallResp |-> Some(t.resp)]
    /\ nextMid' = nextMid + 2
    /\ UNCHANGED <<probe, helper, chatVariant, shotVariant, now, chatSessions,
                   knownIds, turns, directShots, outWrites, errWrites, chat,
                   shot, getResp>>

\* ---------------------------------------------------------------- calls of gemini.ts
\* one call of extractUrlFromPrompt or of detectScreenshotIntent: the
\* outcome of its LLM call and what it returns
NoProbe == [fn |-> "none", out |-> [ok |-> FALSE, reply |-> EmptyStr],
            returned |-> FALSE, url |-> None, intent |-> FALSE]

ReplyCores == {EmptyStr, NO_URL_FOUND, URL_OK, URL_BARE, URL_NOSCHEME,
               <<"a.com", "/">>, <<"http://", "a.com">>, <<"http://">>,
               <<"https://">>, <<"no url here">>,
               <<"https://", "no url here">>,
               <<"NO_URL_FOUND", " ", "a.com">>,
               <<"y", "e", "s">>, <<"Y", "E", "S">>, <<"Y", "e", "s">>,
               <<"N", "O">>, <<"n", "o">>, <<"Y", "E", "S", "!">>,
               <<"Y">>, <<"Y", " ", "E", "S">>}

\* what the model may reply: a core with white space around it
Replies == {a \o core \o b : a \in {<<>>, <<" ">>}, core \in ReplyCores,
                             b \in {<<>>, <<"\n">>, <<" ", "\n">>}}

LlmOutcomes == {[ok |-> FALSE, reply |-> EmptyStr]}
               \cup [ok : {TRUE}, reply : Replies]

\* extractUrlFromPrompt returns
ExtractUrlReturns ==
    /\ probe.fn = "extractUrlFromPrompt"
    /\ ~probe.returned
    /\ probe' = [probe EXCEPT !.returned = TRUE,
                              !.url = extractUrlFromPrompt(probe.out)]
    /\ UNCHANGED <<pair, helper, chatVariant, shotVariant, now, chatSessions,
                   knownIds, nextMid, turns, directShots, outWrites, errWrites,
                   chat, shot, getResp>>

\* detectScreenshotIntent returns
DetectIntentReturns ==
    /\ probe.fn = "detectScreenshotIntent"
    /\ ~probe.returned
    /\ probe' = [probe EXCEPT !.returned = TRUE,
                              !.intent = detectScreenshotIntent(probe.out)]
    /\ UNCHANGED <<pair, helper, chatVariant, shotVariant, now, chatSessions,
                   knownIds, nextMid, turns, directShots, outWrites, errWrites,
                   chat, shot, getResp>>

\* ---------------------------------------------------------------- specifications
\* the server has just started, at time t
InitFresh(t) ==
    /\ now = t
    /\ chatSessions = <<>>
    /\ knownIds = {}
    /\ nextMid = 1
    /\ turns = 0
    /\ directShots = 0
    /\ outWrites = 0
    /\ errWrites = 0
    /\ chat = [r \in ChatReqs |-> IdleChat]
    /\ shot = [k \in ShotIds |-> IdleShot]
    /\ getResp = NoGet
    /\ helper = [h \in Helpers |-> IdleHelper("functional")]
    /\ pair = NoPair
    /\ probe = NoProbe

\* the store after one finished turn "hello" / "reply" on a new session; the
\* two-call generateChatResponse has put the context into the user message
SeededStore(variant) ==
    LET k == uuidv4({})
        hello == IF variant = "twoCall" THEN CONTEXT_PREFIX \o Str("hello")
                 ELSE Str("hello")
    IN  k :> [id |-> k,
              messages |-> <<PlainMessage(1, "user", hello),
                             PlainMessage(2, "assistant", Str("reply"))>>,
              createdAt |-> 0, updatedAt |-> 0]

\* the server has served one plain turn at time 0; it is now time t
InitSeeded(t) ==
    /\ now = t
    /\ chatSessions = SeededStore(chatVariant)
    /\ knownIds = DOMAIN chatSessions
    /\ nextMid = 3
    /\ turns = 0
    /\ directShots = 0
    /\ outWrites = 0
    /\ errWrites = 0
    /\ chat = [r \in ChatReqs |-> IdleChat]
    /\ shot = [k \in ShotIds |-> IdleShot]
    /\ getResp = NoGet
    /\ helper = [h \in Helpers |-> IdleHelper("functional")]
    /\ pair = NoPair
    /\ probe = NoProbe

\* the steps of the chat turns and of the helpers they start
ChatNext ==
    \/ \E r \in ChatReqs : \E body \in ChatBodies : ChatPost(r, body)
    \/ \E r \in ChatReqs : \E out \in IntentOutcomes : IntentReturn(r, out)
    \/ \E r \in ChatReqs : \E out \in ExtractOutcomes : ExtractReturn(r, out)
    \/ \E r \in ChatReqs : \E out \in FcOutcomes : GenerateReturn(r, out)
    \/ \E r \in ChatReqs : FetchReturn(r)
    \/ \E k \in ChatReqs : ChildStdout(k)
    \/ \E k \in ChatReqs : \E data \in StderrChunks : ChildStderr(k, data)
    \/ \E k \in ChatReqs : ChildError(k)
    \/ \E k \in ChatReqs : \E code \in ExitCodes : ChildClose(k, code)

\* chat turns while the clock advances
Init ==
    /\ chatVariant \in {"fc", "twoCall"}
    /\ shotVariant \in {"v1", "v2"}
    /\ InitFresh(0) \/ InitSeeded(0)

Next == ChatNext \/ Tick

Spec == Init /\ [][Next]_vars

\* chat turns and history GETs, some time after the start
InitHistory ==
    /\ chatVariant \in {"fc", "twoCall"}
    /\ shotVariant \in {"v1", "v2"}
    /\ InitFresh(MaxClock) \/ InitSeeded(MaxClock)

NextHistory == ChatNext \/ \E q \in GetQueries : Get(q)

SpecHistory == InitHistory /\ [][NextHistory]_vars

\* the screenshot route alone, with requests of several clients in flight
InitShot ==
    /\ chatVariant = "fc"
    /\ shotVariant \in {"v1", "v2"}
    /\ InitFresh(0)

NextShot ==
    \/ \E k \in DirectShots : \E body \in ShotBodies : DirectShotPost(k, body)
    \/ \E k \in DirectShots : ChildStdout(k)
    \/ \E k \in DirectShots : \E data \in StderrChunks : ChildStderr(k, data)
    \/ \E k \in DirectShots : ChildError(k)
    \/ \E k \in DirectShots : \E code \in ExitCodes : ChildClose(k, code)

SpecShot == InitShot /\ [][NextShot]_vars

\* runs of the helper script on its own
InitHelper ==
    /\ chatVariant = "fc"
    /\ shotVariant = "v1"
    /\ now = 0
    /\ chatSessions = <<>>
    /\ knownIds = {}
    /\ nextMid = 1
    /\ turns = 0
    /\ directShots = 0
    /\ outWrites = 0
    /\ errWrites = 0
    /\ chat = [r \in ChatReqs |-> IdleChat]
    /\ shot = [k \in ShotIds |-> IdleShot]
    /\ getResp = NoGet
    /\ helper \in {[h \in Helpers |-> IdleHelper(v)] : v \in HelperVariants}
    /\ pair = NoPair
    /\ probe = NoProbe

NextHelper ==
    \/ \E h \in Helpers : \E arg \in HelperArgs : HelperRun(h, arg)
    \/ \E h \in Helpers : \E ok, connected \in BOOLEAN :
          HelperConnected(h, ok, connected)
    \/ \E h \in Helpers : \E ok, connected \in BOOLEAN :
          HelperNavigated(h, ok, connected)
    \/ \E h \in Helpers : \E ok, connected \in BOOLEAN :
          \E content \in CaptureContents :
             HelperCaptured(h, ok, content, connected)
    \/ \E h \in Helpers : \E ok \in BOOLEAN : HelperDisconnected(h, ok)

SpecHelper == InitHelper /\ [][NextHelper]_vars

\* the two chat routes driven by the same requests
InitEquiv ==
    /\ chatVariant = "fc"
    /\ shotVariant = "v1"
    /\ InitFresh(0)

NextEquiv ==
    \E body \in PairBodies : \E d \in Decisions : \E o \in ShotOutcomes :
        PairTurn(body, d, o)

SpecEquiv == InitEquiv /\ [][NextEquiv]_vars

\* calls of the two LLM helpers of gemini.ts
InitGemini ==
    /\ chatVariant = "twoCall"
    /\ shotVariant = "v1"
    /\ now = 0
    /\ chatSessions = <<>>
    /\ knownIds = {}
    /\ nextMid = 1
    /\ turns = 0
    /\ directShots = 0
    /\ outWrites = 0
    /\ errWrites = 0
    /\ chat = [r \in ChatReqs |-> IdleChat]
    /\ shot = [k \in ShotIds |-> IdleShot]
    /\ getResp = NoGet
    /\ helper = [h \in Helpers |-> IdleHelper("functional")]
    /\ pair = NoPair
    /\ probe \in {[NoProbe EXCEPT !.fn = fn, !.out = out] :
                     fn \in {"extractUrlFromPrompt", "detectScreenshotIntent"},
                     out \in LlmOutcomes}

NextGemini == ExtractUrlReturns \/ DetectIntentReturns

SpecGemini == InitGemini /\ [][NextGemini]_vars

\* ---------------------------------------------------------------- properties
IsPrefix(a, b) == Len(a) <= Len(b) /\ SubSeq(b, 1, Len(a)) = a

MessageIds(msgs) == [i \in 1..Len(msgs) |-> msgs[i].mid]

RECURSIVE Flatten(_)
Flatten(chunks) == IF chunks = <<>> THEN <<>>
                   ELSE Head(chunks) \o Flatten(Tail(chunks))

\* turn r returns its success response in this step
RespondsOk(r) == /\ InFlight(chat[r])
                 /\ chat'[r].pc = "done"
                 /\ Val(chat'[r].resp).success

\* C1 as stated: a validated chat POST that supplies a session id returned
\* by an earlier POST returns that id, adds no key to the store, and between
\* its start and its response the list of the session grows by exactly 2, its
\* user message followed by its assistant message.
C1_GrowsByExactlyTwo ==
    [][\A r \in ChatReqs :
          /\ \A body \in ChatBodies :
                (ChatPost(r, body) /\ MessageSchemaOk(body)
                                   /\ body.sessionId \in knownIds)
                => /\ chat'[r].sid = body.sessionId
                   /\ DOMAIN chatSessions' = DOMAIN chatSessions
          /\ (RespondsOk(r) /\ ~chat[r].created)
             => LET resp == Val(chat'[r].resp)
                    msgs == chatSessions'[chat[r].sid].messages
                    n == chat[r].startLen
                IN  /\ resp.sessionId = chat[r].sid
                    /\ DOMAIN chatSessions' = DOMAIN chatSessions
                    /\ Len(msgs) = n + 2
                    /\ msgs[n + 1].mid = chat[r].userMid
                    /\ msgs[n + 2] = Val(resp.response)]_vars

\* C1 as amended: such a POST returns the supplied id and adds no key; its
\* user message is stored at position n+1 (n the length at its start) and its
\* assistant message is the last of the list at its response; in between the
\* list grows by 2 plus the number of messages that other turns on the same
\* session appended meanwhile, so by exactly 2 when no other turn overlaps.
C1_SessionContinuity ==
    [][\A r \in ChatReqs :
          /\ \A body \in ChatBodies :
                (ChatPost(r, body) /\ MessageSchemaOk(body)
                                   /\ body.sessionId \in knownIds)
                => /\ chat'[r].sid = body.sessionId
                   /\ DOMAIN chatSessions' = DOMAIN chatSessions
          /\ (RespondsOk(r) /\ ~chat[r].created)
             => LET resp == Val(chat'[r].resp)
                    msgs == chatSessions'[chat[r].sid].messages
                    n == chat[r].startLen
                IN  /\ resp.sessionId = chat[r].sid
                    /\ DOMAIN chatSessions' = DOMAIN chatSessions
                    /\ Len(msgs) = n + 2 + chat[r].others
                    /\ msgs[n + 1].mid = chat[r].userMid
                    /\ msgs[n + 1].role = "user"
                    /\ msgs[Len(msgs)] = Val(resp.response)
                    /\ msgs[Len(msgs)].role = "assistant"]_vars

\* a turn that reused a session has returned, its assistant message being the
\* last of a list of at least two turns
C1_Witness ==
    \E r \in ChatReqs :
        /\ chat[r].pc = "done" /\ chat[r].validated /\ ~chat[r].created
        /\ LET resp == Val(chat[r].resp)
               msgs == chatSessions[resp.sessionId].messages
           IN  Len(msgs) >= 4 /\ msgs[Len(msgs)] = Val(resp.response)

\* C2: session resolution.  A supplied id that is a key of the store is
\* reused: no key is added and updatedAt becomes the current time.  Any other
\* supplied id (null, absent, empty, unknown) makes the POST mint an id that
\* is no key yet and differs from the supplied one, and store under it a
\* session that holds nothing but the turn's user message.  Every stored
\* session's id equals its key.
C2_SessionResolution ==
    [][/\ \A k \in DOMAIN chatSessions' : chatSessions'[k].id = k
       /\ \A r \in ChatReqs : \A body \in ChatBodies :
            (ChatPost(r, body) /\ MessageSchemaOk(body))
            => LET k == chat'[r].sid
               IN  IF body.sessionId \in DOMAIN chatSessions
                   THEN /\ k = body.sessionId
                        /\ ~chat'[r].created
                        /\ DOMAIN chatSessions' = DOMAIN chatSessions
                        /\ chatSessions'[k].updatedAt = now
                        /\ chatSessions'[k].createdAt = chatSessions[k].createdAt
                   ELSE /\ k \notin DOMAIN chatSessions
                        /\ k # body.sessionId
                        /\ chat'[r].created
                        /\ DOMAIN chatSessions' = DOMAIN chatSessions \cup {k}
                        /\ body.sessionId \notin DOMAIN chatSessions'
                        /\ chat'[r].startLen = 0
                        /\ Len(chatSessions'[k].messages) = 1
                        /\ chatSessions'[k].messages[1].mid = chat'[r].userMid]_vars

\* a turn in flight has reused a session and refreshed its updatedAt, while an
\* unknown id supplied earlier has led to a second key
C2_Witness ==
    \E r \in ChatReqs :
        /\ InFlight(chat[r]) /\ ~chat[r].created
        /\ chatSessions[chat[r].sid].updatedAt > chatSessions[chat[r].sid].createdAt
        /\ Cardinality(DOMAIN chatSessions) >= 2

\* C3: the message list of a session is append-only: in every step every
\* session stays in the store and the sequence of message objects it held
\* before the step is a prefix of the one it holds after it (nothing removed,
\* reordered or inserted other than at the end), whether the step belongs to
\* a chat POST or a history GET.
C3_AppendOnly ==
    [][\A k \in DOMAIN chatSessions :
          /\ k \in DOMAIN chatSessions'
          /\ IsPrefix(MessageIds(chatSessions[k].messages),
                      MessageIds(chatSessions'[k].messages))]_vars

\* a history GET has returned a list that two turns have appended to
C3_Witness ==
    /\ IsSome(getResp.resp)
    /\ Val(getResp.resp).success
    /\ Len(Val(getResp.resp).messages) >= 3
    /\ Val(getResp.resp).messages = chatSessions[getResp.q].messages

\* C4 as stated: once a message is in a list its role and content never change.
C4_MessagesImmutable ==
    [][\A k \in DOMAIN chatSessions :
          \A i \in 1..Len(chatSessions[k].messages) :
              /\ k \in DOMAIN chatSessions'
              /\ i <= Len(chatSessions'[k].messages)
              /\ chatSessions'[k].messages[i].role = chatSessions[k].messages[i].role
              /\ chatSessions'[k].messages[i].content
                     = chatSessions[k].messages[i].content]_vars

\* C5: every stored assistant message carries a screenshot URL and a non-empty
\* base64 payload together, with isScreenshot = true, or neither of the two.
C5_ScreenshotFieldsTogether ==
    \A k \in DOMAIN chatSessions :
        \A i \in 1..Len(chatSessions[k].messages) :
            LET m == chatSessions[k].messages[i]
            IN  m.role = "assistant" =>
                   \/ /\ IsSome(m.screenshotUrl) /\ Val(m.screenshotUrl) # EmptyStr
                      /\ IsSome(m.screenshotBase64)
                      /\ Val(m.screenshotBase64) # EmptyStr
                      /\ m.isScreenshot = Some(TRUE)
                   \/ /\ m.screenshotUrl = None
                      /\ m.screenshotBase64 = None

\* an assistant message with a screenshot is stored
C5_Witness ==
    \E k \in DOMAIN chatSessions :
        \E i \in 1..Len(chatSessions[k].messages) :
            /\ chatSessions[k].messages[i].role = "assistant"
            /\ IsSome(chatSessions[k].messages[i].screenshotBase64)

\* the helper of request k closes in this step
Closes(k) == shot[k].pc = "running" /\ shot'[k].pc = "done"

\* request k is answered in this step
Answered(k) == shot[k].pc # "done" /\ shot'[k].pc = "done"

\* C6: the screenshot endpoint answers success exactly when the helper has
\* closed with no 'error' event recorded, exit code 0 and non-empty collected
\* stdout; base64Data is then the concatenation, in arrival order, of all the
\* chunks the helper wrote to stdout, and is not empty.
C6_SuccessIffCleanExit ==
    [][\A k \in ShotIds :
          Answered(k) =>
             LET st == shot[k]
                 resp == Val(shot'[k].resp)
                 code == shot'[k].code
             IN  /\ resp.success <=> /\ Closes(k)
                                     /\ st.processError = None
                                     /\ code = 0
                                     /\ st.stdoutData # EmptyStr
                 /\ resp.success => /\ resp.status = 200
                                    /\ resp.base64Data = Flatten(st.written)
                                    /\ resp.base64Data # EmptyStr]_vars

\* a success response carries two chunks
C6_Witness ==
    \E k \in DirectShots :
        /\ shot[k].pc = "done"
        /\ Val(shot[k].resp).success
        /\ Len(Val(shot[k].resp).base64Data) = 2

\* the stage an error text names
StageOf(text) ==
    CASE text[1] = "Failed to start screenshot process: " -> "spawn"
      [] text[1] = "Screenshot script failed (code " -> "exit"
      [] text[1] = "Screenshot script succeeded but returned no data." -> "empty"
      [] OTHER -> "other"

\* C7: a validated screenshot request that fails is answered 500 with the
\* error of exactly one stage, decided in this order: spawn failure whenever
\* an 'error' event was recorded (whatever the exit code), else non-zero exit,
\* carrying the exit code and the collected stderr text, else empty output.
C7_FailureStages ==
    [][\A k \in ShotIds :
          (Closes(k) /\ ~Val(shot'[k].resp).success) =>
             LET st == shot[k]
                 resp == Val(shot'[k].resp)
                 code == shot'[k].code
                 stage == IF st.processError # None THEN "spawn"
                          ELSE IF code # 0 THEN "exit" ELSE "empty"
             IN  /\ resp.status = 500
                 /\ resp.json
                 /\ resp.error.kind = stage
                 /\ StageOf(ErrorText(resp.error)) = stage
                 /\ stage = "spawn" =>
                       ErrorText(resp.error)
                          = Str("Failed to start screenshot process: ")
                              \o Val(st.processError)
                 /\ stage = "exit" =>
                       /\ resp.error.code = code
                       /\ resp.error.text = st.stderrData
                       /\ SubSeq(ErrorText(resp.error), 4,
                                 Len(ErrorText(resp.error))) = st.stderrData
                 /\ stage = "empty" => st.stdoutData = EmptyStr]_vars

\* a request has failed as a spawn failure although its helper exited with
\* a non-zero code
C7_Witness ==
    \E k \in DirectShots :
        /\ shot[k].pc = "done" /\ shot[k].valid
        /\ Val(shot[k].resp).status = 500
        /\ Val(shot[k].resp).error.kind = "spawn"
        /\ shot[k].code # 0

\* C8 as stated: a screenshot POST whose body is not JSON or whose url is
\* missing or no absolute URL is answered 400 and spawns no helper; a helper
\* is only ever spawned with a url that passed validation.
C8_InvalidIs400NoSpawn ==
    \A k \in ShotIds :
        /\ (shot[k].pc = "done" /\ ~shot[k].valid)
              => /\ Val(shot[k].resp).status = 400
                 /\ shot[k].spawnedUrl = None
        /\ IsSome(shot[k].spawnedUrl) => ParsesAsUrl(Val(shot[k].spawnedUrl))

\* C9 as stated: a chat POST that fails validation is answered 400, makes no
\* LLM call, spawns no helper and leaves the session store unchanged.
C9_InvalidIs400NoEffect ==
    [][\A r \in ChatReqs : \A body \in ChatBodies :
          (ChatPost(r, body) /\ ~MessageSchemaOk(body))
          => /\ Val(chat'[r].resp).status = 400
             /\ ~Val(chat'[r].resp).success
             /\ chat'[r].pc = "done"
             /\ chat'[r].llmCalls = 0
             /\ \A k \in ShotIds : shot'[k].pc = "running" => shot[k].pc = "running"
             /\ chatSessions' = chatSessions]_vars

\* C10: a history GET without sessionId, or with an empty one, answers 400;
\* with an id that is no key of the store 404; with a key 200 with the id,
\* the message list in stored order and the timestamps of that session; no
\* GET changes the session store.
C10_HistoryGet ==
    [][IsSome(getResp'.resp) =>
          LET q == getResp'.q
              resp == Val(getResp'.resp)
          IN  /\ chatSessions' = chatSessions
              /\ (q = NullId \/ q = EmptyId) => resp.status = 400 /\ ~resp.success
              /\ (q # NullId /\ q # EmptyId /\ q \notin DOMAIN chatSessions)
                     => resp.status = 404 /\ ~resp.success
              /\ q \in DOMAIN chatSessions
                     => /\ resp.status = 200 /\ resp.success
                        /\ resp.sessionId = q
                        /\ resp.messages = chatSessions[q].messages
                        /\ resp.createdAt = chatSessions[q].createdAt
                        /\ resp.updatedAt = chatSessions[q].updatedAt]_vars

\* a GET has returned the list of a session while a later turn on it is in
\* flight
C10_Witness ==
    /\ IsSome(getResp.resp)
    /\ Val(getResp.resp).status = 200
    /\ Len(Val(getResp.resp).messages) >= 3
    /\ \E r \in ChatReqs : InFlight(chat[r]) /\ chat[r].sid = getResp.q

EndsWith(s, t) == Len(t) <= Len(s) /\ SubSeq(s, Len(s) - Len(t) + 1, Len(s)) = t

NoScreenshotFields(m) == /\ m.isScreenshot = None
                         /\ m.screenshotUrl = None
                         /\ m.screenshotBase64 = None

\* the model's reply asks for take_screenshot with a non-empty url
RequestsScreenshot(out) ==
    /\ out.ok
    /\ IsSome(out.functionCall)
    /\ Val(out.functionCall).name = TAKE_SCREENSHOT
    /\ IsSome(Val(out.functionCall).url)
    /\ Val(Val(out.functionCall).url) # EmptyStr

\* C11: function-calling variant.  When the model requests take_screenshot
\* with a non-empty url, the screenshot endpoint is called with that url and
\* the model's text is kept; if the call throws, or its answer is no JSON, or
\* it reports failure, the assistant message is an error text ending with the
\* failure reason and has no screenshot field; if it reports success, the
\* assistant message is the model's text with isScreenshot = true, that url
\* and the returned payload; the turn answers success = true in every case.
C11_ScreenshotBranchMessages ==
    [][\A r \in ChatReqs :
          /\ \A out \in FcOutcomes :
                (chatVariant = "fc" /\ RequestsScreenshot(out)
                                    /\ GenerateReturn(r, out))
                => LET url == Val(Val(out.functionCall).url)
                   IN  \/ /\ chat'[r].pc = "fetch"
                          /\ chat'[r].text = out.text
                          /\ chat'[r].extractedUrl = Some(url)
                          /\ shot'[r] = ShotHandle([json |-> TRUE, url |-> Some(url)],
                                                   shotVariant)
                       \/ /\ RespondsOk(r)
                          /\ LET m == Val(Val(chat'[r].resp).response)
                             IN  /\ NoScreenshotFields(m)
                                 /\ m.role = "assistant"
                                 /\ EndsWith(m.content, Str("fetch failed"))
          /\ (chatVariant = "fc" /\ chat[r].pc = "fetch" /\ chat'[r].pc # "fetch")
             => LET res == Val(shot[r].resp)
                    resp == Val(chat'[r].resp)
                    m == Val(resp.response)
                IN  /\ RespondsOk(r)
                    /\ resp.status = 200
                    /\ resp.isScreenshotIntent
                    /\ resp.extractedUrl = chat[r].extractedUrl
                    /\ m.role = "assistant"
                    /\ (res.json /\ res.success)
                       => /\ m.content = chat[r].text
                          /\ m.isScreenshot = Some(TRUE)
                          /\ m.screenshotUrl = chat[r].extractedUrl
                          /\ m.screenshotBase64 = Some(res.base64Data)
                    /\ (res.json /\ ~res.success)
                       => /\ NoScreenshotFields(m)
                          /\ EndsWith(m.content, ErrorText(res.error))
                          /\ Len(ErrorText(res.error)) > 0
                    /\ ~res.json
                       => /\ NoScreenshotFields(m)
                          /\ EndsWith(m.content, Str("Unexpected token"))]_vars

\* a function-calling turn has answered with the error text of a helper that
\* exited with a non-zero code
C11_Witness ==
    \E r \in ChatReqs :
        /\ chatVariant = "fc"
        /\ chat[r].pc = "done"
        /\ Val(chat[r].resp).success
        /\ Val(chat[r].resp).isScreenshotIntent
        /\ LET m == Val(Val(chat[r].resp).response)
           IN  /\ NoScreenshotFields(m)
               /\ \E i \in 1..Len(m.content) :
                     m.content[i] = "Screenshot script failed (code "

\* turn r, validated and in flight, ends in this step
Ends(r) == InFlight(chat[r]) /\ ~InFlight(chat'[r])

\* C12: a validated turn ends, in either variant and on every branch, by
\* appending one assistant message to the session it resolved and answering
\* 200, success = true, with that message, the id of that session,
\* isScreenshotIntent and extractedUrl; no other step of the turn appends an
\* assistant message: a list grows only by the user message of a turn that
\* starts or by the assistant message of the turn that ends.
C12_OneAssistantMessagePerTurn ==
    [][/\ \A r \in ChatReqs :
             Ends(r) =>
                LET k == chat[r].sid
                    resp == Val(chat'[r].resp)
                IN  /\ chat'[r].pc = "done"
                    /\ resp.status = 200
                    /\ resp.success
                    /\ resp.sessionId = chatSessions[k].id
                    /\ IsSome(resp.response)
                    /\ Val(resp.response).role = "assistant"
                    /\ chatSessions'[k].messages
                          = Append(chatSessions[k].messages, Val(resp.response))
                    /\ resp.isScreenshotIntent \in BOOLEAN
                    /\ IsSome(resp.extractedUrl) => resp.isScreenshotIntent
                    /\ \A q \in ChatReqs \ {r} : ~Ends(q)
       /\ \A k \in DOMAIN chatSessions :
             LET old == chatSessions[k].messages
                 new == chatSessions'[k].messages
             IN  MessageIds(new) # MessageIds(old) =>
                    /\ Len(new) = Len(old) + 1
                    /\ MessageIds(old) = MessageIds(SubSeq(new, 1, Len(old)))
                    /\ new[Len(new)].role \in {"user", "assistant"}
                    /\ new[Len(new)].role = "assistant" =>
                          \E r \in ChatReqs :
                             /\ Ends(r) /\ chat[r].sid = k
                             /\ Val(chat'[r].resp).response = Some(new[Len(new)])
                    /\ new[Len(new)].role = "user" =>
                          \E r \in ChatReqs :
                             /\ ~InFlight(chat[r]) /\ InFlight(chat'[r])
                             /\ chat'[r].sid = k
                             /\ chat'[r].userMid = new[Len(new)].mid]_vars

\* a two-call turn that found no url has answered with the message it stored
\* last in its session
C12_Witness ==
    \E r \in ChatReqs :
        /\ chat[r].pc = "done" /\ chat[r].validated
        /\ LET resp == Val(chat[r].resp)
               msgs == chatSessions[resp.sessionId].messages
           IN  /\ resp.success
               /\ Val(resp.response).content = ASK_URL_TWOCALL
               /\ msgs[Len(msgs)] = Val(resp.response)

\* the model's reply asks for take_screenshot without a url, or with ''
RequestsWithoutUrl(out) ==
    /\ out.ok
    /\ IsSome(out.functionCall)
    /\ Val(out.functionCall).name = TAKE_SCREENSHOT
    /\ Val(out.functionCall).url \in {None, Some(EmptyStr)}

\* no request reaches the screenshot endpoint and no helper starts in this step
NoScreenshotCall ==
    \A k \in ShotIds : /\ shot'[k].pc = "running" => shot[k].pc = "running"
                       /\ shot'[k].pc = "done" => shot[k].pc \in {"running", "done"}

\* C13: function-calling variant.  When the model requests take_screenshot
\* and the url argument is missing or empty, the turn answers at once with
\* the message asking for a valid URL, isScreenshotIntent = true, without
\* calling the screenshot endpoint and without a helper being spawned.
C13_MissingUrlAsksUser ==
    [][\A r \in ChatReqs : \A out \in FcOutcomes :
          (chatVariant = "fc" /\ RequestsWithoutUrl(out) /\ GenerateReturn(r, out))
          => /\ RespondsOk(r)
             /\ LET resp == Val(chat'[r].resp)
                    m == Val(resp.response)
                IN  /\ resp.isScreenshotIntent
                    /\ m.role = "assistant"
                    /\ m.content = Str("I'd like to take a screenshot, but I couldn't process the URL. Could you please provide a valid URL?")
                    /\ NoScreenshotFields(m)
             /\ NoScreenshotCall]_vars

\* a function-calling turn has asked its user for a URL
C13_Witness ==
    \E r \in ChatReqs :
        /\ chatVariant = "fc" /\ chat[r].pc = "done" /\ chat[r].validated
        /\ Val(chat[r].resp).isScreenshotIntent
        /\ Val(Val(chat[r].resp).response).content = ASK_URL_FC

\* C14: when the reply of generateChatResponse's model call has no function
\* call, the turn answers isScreenshotIntent = false, extractedUrl = null and
\* an assistant message whose content is the model's text and which has none
\* of the screenshot fields; no helper is spawned.
C14_NoFunctionCallIsText ==
    [][\A r \in ChatReqs : \A out \in FcOutcomes :
          (out.ok /\ out.functionCall = None /\ GenerateReturn(r, out))
          => /\ RespondsOk(r)
             /\ LET resp == Val(chat'[r].resp)
                    m == Val(resp.response)
                IN  /\ ~resp.isScreenshotIntent
                    /\ resp.extractedUrl = None
                    /\ m.role = "assistant"
                    /\ m.content = out.text
                    /\ NoScreenshotFields(m)
             /\ NoScreenshotCall]_vars

\* a function-calling turn has answered with the model's text
C14_Witness ==
    \E r \in ChatReqs :
        /\ chatVariant = "fc" /\ chat[r].pc = "done" /\ chat[r].validated
        /\ ~Val(chat[r].resp).isScreenshotIntent
        /\ Val(Val(chat[r].resp).response).content = Str("reply")

\* C15: when the model call of generateChatResponse fails, the turn answers
\* 200, success = true, isScreenshotIntent = false, extractedUrl = null, with
\* the fixed apology as assistant message, which is appended to the session;
\* no helper is spawned.
C15_LlmFailureApology ==
    [][\A r \in ChatReqs : \A out \in FcOutcomes :
          (~out.ok /\ GenerateReturn(r, out))
          => /\ RespondsOk(r)
             /\ LET resp == Val(chat'[r].resp)
                    m == Val(resp.response)
                    msgs == chatSessions'[chat[r].sid].messages
                IN  /\ resp.status = 200
                    /\ ~resp.isScreenshotIntent
                    /\ resp.extractedUrl = None
                    /\ m.role = "assistant"
                    /\ m.content = Str("I'm sorry, I encountered an error while processing your message. Please try again.")
                    /\ NoScreenshotFields(m)
                    /\ msgs[Len(msgs)] = m
             /\ NoScreenshotCall]_vars

\* a turn has answered with the apology
C15_Witness ==
    \E r \in ChatReqs :
        /\ chat[r].pc = "done" /\ chat[r].validated
        /\ Val(chat[r].resp).success
        /\ Val(Val(chat[r].resp).response).content = APOLOGY

\* an event of the helper of request k, or the arrival of request k, is
\* handled in this step
EventOf(k) == \/ ChildStdout(k)
              \/ \E data \in StderrChunks : ChildStderr(k, data)
              \/ ChildError(k)
              \/ \E code \in ExitCodes : ChildClose(k, code)
              \/ \E body \in ShotBodies : DirectShotPost(k, body)

\* C16: screenshot requests in flight at the same time are isolated.  An
\* event of one request's helper, or a new request, changes nothing of what
\* another running request has collected; when a helper closes, the answer
\* to its request is a success exactly when that helper had no 'error'
\* event, exited with code 0 and wrote something to its stdout, and the
\* payload is then the concatenation of the chunks that helper wrote, even
\* if other helpers, for the same url, wrote in between.
C16_ConcurrentShotsIsolated ==
    [][\A k \in ShotIds :
          /\ EventOf(k) =>
                \A j \in ShotIds \ {k} :
                    shot[j].pc = "running" => shot'[j] = shot[j]
          /\ Closes(k) =>
                LET resp == Val(shot'[k].resp)
                IN  /\ resp.success <=> /\ shot[k].processError = None
                                        /\ shot'[k].code = 0
                                        /\ shot[k].written # <<>>
                    /\ resp.success => resp.base64Data = Flatten(shot[k].written)
                    /\ ~resp.success => resp.base64Data = EmptyStr]_vars

\* of two requests for the same url in flight together, one has been
\* answered with the chunk its helper wrote while the other holds the chunk
\* of its own helper
C16_Witness ==
    \E k, j \in DirectShots :
        /\ k # j
        /\ shot[k].pc = "done" /\ Val(shot[k].resp).success
        /\ shot[j].pc = "running" /\ shot[j].stdoutData # EmptyStr
        /\ shot[j].spawnedUrl = shot[k].spawnedUrl
        /\ Val(shot[k].resp).base64Data # shot[j].stdoutData
        /\ shot[j].stdoutData = Flatten(shot[j].written)

\* the places (session, position) where the message object mid is stored
PlacesOf(mid) ==
    {<<k, i>> \in (DOMAIN chatSessions) \X (1..(2 * MaxTurns + 2)) :
        /\ i <= Len(chatSessions[k].messages)
        /\ chatSessions[k].messages[i].mid = mid}

\* every session is stored under its own id, every message object is stored
\* in one place, the user message of a turn in flight is in the session the
\* turn resolved, and turns in flight that created their sessions resolved
\* different ones
SessionsApart ==
    /\ \A k \in DOMAIN chatSessions : chatSessions[k].id = k
    /\ \A mid \in 1..(nextMid - 1) : Cardinality(PlacesOf(mid)) = 1
    /\ \A r \in ChatReqs :
          InFlight(chat[r]) =>
             /\ chat[r].sid \in DOMAIN chatSessions
             /\ \E p \in PlacesOf(chat[r].userMid) : p[1] = chat[r].sid
    /\ \A r, q \in ChatReqs :
          (r # q /\ InFlight(chat[r]) /\ InFlight(chat[q])
                 /\ chat[r].created /\ chat[q].created)
          => chat[r].sid # chat[q].sid

\* no session is lost or replaced, and a step of a turn touches only the
\* session that turn resolved
SessionsKept ==
    /\ \A k \in DOMAIN chatSessions :
          /\ k \in DOMAIN chatSessions'
          /\ chatSessions'[k].id = chatSessions[k].id
          /\ chatSessions'[k].createdAt = chatSessions[k].createdAt
          /\ IsPrefix(MessageIds(chatSessions[k].messages),
                      MessageIds(chatSessions'[k].messages))
    /\ \A r \in ChatReqs :
          /\ (~InFlight(chat[r]) /\ InFlight(chat'[r])) =>
                \A k \in DOMAIN chatSessions \ {chat'[r].sid} :
                    chatSessions'[k] = chatSessions[k]
          /\ Ends(r) =>
                /\ DOMAIN chatSessions' = DOMAIN chatSessions
                /\ \A k \in DOMAIN chatSessions \ {chat[r].sid} :
                      chatSessions'[k] = chatSessions[k]
                /\ LET msgs == chatSessions'[chat[r].sid].messages
                   IN  msgs[Len(msgs)] = Val(Val(chat'[r].resp).response)

\* C17: chat turns in flight together on distinct sessions, new ones
\* included, do not interfere: the user and the assistant message of a turn
\* are stored in the session the turn resolved and nowhere else, no stored
\* session is lost or overwritten, and sessions created by turns in flight
\* together have different ids.
C17_DistinctSessionsIsolated == []SessionsApart /\ [][SessionsKept]_vars

\* of two turns that created their sessions while in flight together, one
\* has been answered and the other is still waiting
C17_Witness ==
    \E r, q \in ChatReqs :
        /\ chat[r].pc = "done" /\ chat[r].created
        /\ InFlight(chat[q]) /\ chat[q].created
        /\ Val(chat[r].resp).sessionId # chat[q].sid
        /\ Len(chatSessions[Val(chat[r].resp).sessionId].messages) = 2
        /\ Len(chatSessions[chat[q].sid].messages) = 1

\* C19: a screenshot request whose helper was spawned has no response while
\* the helper runs; it gets its response in the step that handles 'close',
\* in no other step, and that response is not replaced afterwards; the step
\* that handles 'error' leaves the request unanswered.  A chat turn waiting
\* for the request goes on only once the request is answered: as long as the
\* helper does not close, neither the request nor the turn completes.
C19_ResponseOnlyOnClose ==
    [][\A k \in ShotIds :
          /\ shot[k].pc = "running" => shot[k].resp = None
          /\ (shot[k].pc = "running" /\ shot'[k].pc # "running")
             => /\ \E code \in ExitCodes : ChildClose(k, code)
                /\ shot'[k].pc = "done"
                /\ IsSome(shot'[k].resp)
          /\ ChildError(k) => /\ shot'[k].pc = "running"
                              /\ shot'[k].resp = None
                              /\ IsSome(shot'[k].processError)
          /\ (shot[k].pc = "done" /\ shot'[k].pc = "done")
             => shot'[k].resp = shot[k].resp
          /\ k \in ChatReqs =>
                /\ (chat[k].pc = "fetch" /\ chat'[k].pc # "fetch")
                   => (shot[k].pc = "done" /\ chat'[k].pc = "done")
                /\ (chat[k].pc = "fetch" /\ shot'[k].pc = "running")
                   => (chat'[k].pc = "fetch" /\ chat'[k].resp = None)]_vars

\* the helper of a chat turn's screenshot request has had its 'error' event
\* and has not closed: request and turn are still waiting
C19_Witness ==
    \E k \in ChatReqs :
        /\ chat[k].pc = "fetch"
        /\ shot[k].pc = "running"
        /\ IsSome(shot[k].processError)
        /\ shot[k].resp = None

\* the record of a turn without the count of what other turns appended
Own(rec) == [rec EXCEPT !.others = 0]

\* C20: function-calling variant, nothing is retried.  A validated turn
\* issues its one LLM request when it starts and none later; it makes a
\* screenshot request at most once, when the model's reply arrives, and that
\* request starts at most one helper; once the request is answered the turn
\* ends, with the screenshot or with an assistant message carrying the
\* error; a failed LLM call ends the turn with the apology.
C20_NothingRetried ==
    [][\A r \in ChatReqs :
          chatVariant = "fc" =>
             /\ (~InFlight(chat[r]) /\ InFlight(chat'[r]))
                => (chat'[r].pc = "llm" /\ chat'[r].llmCalls = 1)
             /\ InFlight(chat[r]) => chat'[r].llmCalls = chat[r].llmCalls
             /\ Ends(r) => chat'[r].llmCalls = 1
             /\ chat[r].pc = "llm"
                => \/ Own(chat'[r]) = Own(chat[r])
                   \/ chat'[r].pc \in {"fetch", "done"}
             /\ chat[r].pc = "fetch"
                => \/ Own(chat'[r]) = Own(chat[r])
                   \/ Ends(r) /\ shot[r].pc = "done"
             /\ (shot[r].pc = "idle" /\ shot'[r].pc # "idle")
                => (chat[r].pc = "llm" /\ chat'[r].pc = "fetch")
             /\ shot'[r].pc = "running" => shot[r].pc \in {"idle", "running"}
             /\ shot[r].pc = "done" => shot'[r].pc \in {"done", "idle"}
             /\ \A out \in FcOutcomes :
                   (~out.ok /\ GenerateReturn(r, out))
                   => /\ Ends(r)
                      /\ Val(Val(chat'[r].resp).response).content = APOLOGY
             /\ (chat[r].pc = "fetch" /\ shot[r].pc = "done"
                   /\ ~(Val(shot[r].resp).json /\ Val(shot[r].resp).success)
                   /\ Own(chat'[r]) # Own(chat[r]))
                => /\ Ends(r)
                   /\ NoScreenshotFields(Val(Val(chat'[r].resp).response))
                   /\ Val(Val(chat'[r].resp).response).content[1]
                         \in {"I tried to take a screenshot of ",
                              "I tried to take a screenshot, but encountered an error: "}]_vars

\* a function-calling turn has ended after one LLM request with the report
\* of a helper that could not be started
C20_Witness ==
    \E r \in ChatReqs :
        /\ chatVariant = "fc"
        /\ chat[r].pc = "done" /\ chat[r].validated
        /\ chat[r].llmCalls = 1
        /\ shot[r].pc = "idle"
        /\ \E i \in 1..Len(Val(Val(chat[r].resp).response).content) :
              Val(Val(chat[r].resp).response).content[i]
                 = "Failed to start screenshot process: "

\* C18 as stated: whatever a run of the helper has written to standard
\* output is the base64 payload of the capture, or nothing.
C18_StdoutOnlyPayload ==
    \A h \in Helpers :
        \/ helper[h].stdout = EmptyStr
        \/ /\ IsSome(helper[h].image)
           /\ helper[h].stdout = Val(helper[h].image)

\* turn r starts, validated, in this step
Starts(r) == ~InFlight(chat[r]) /\ InFlight(chat'[r])

\* the screenshot endpoint is invoked for turn r in this step
InvokesScreenshot(r) == shot[r].pc = "idle" /\ shot'[r].pc # "idle"

\* C21: function-calling variant, order of the steps of a turn.  When the
\* turn starts its session is resolved, then its user message is the last
\* of that session's list and the model is invoked with a list that ends
\* with it; the screenshot endpoint is invoked only in the step that handles
\* the model's reply, and only if that reply requests take_screenshot with a
\* url; the response is returned only in a step after which the assistant
\* message it carries is the last of the session's list, and a turn that
\* waits for the model or for the endpoint has no response.
C21_StepOrder ==
    [][\A r \in ChatReqs :
          chatVariant = "fc" =>
             /\ Starts(r) =>
                   LET k == chat'[r].sid
                       msgs == chatSessions'[k].messages
                   IN  /\ k \in DOMAIN chatSessions'
                       /\ chat'[r].pc = "llm"
                       /\ msgs[Len(msgs)].mid = chat'[r].userMid
                       /\ msgs[Len(msgs)].role = "user"
                       /\ Len(chat'[r].sent) > 0
                       /\ chat'[r].sent[Len(chat'[r].sent)]
                             = [role |-> "user", text |-> msgs[Len(msgs)].content]
                       /\ shot'[r].pc = "idle"
             /\ InvokesScreenshot(r) =>
                   /\ chat[r].pc = "llm"
                   /\ \E out \in FcOutcomes :
                         RequestsScreenshot(out) /\ GenerateReturn(r, out)
             /\ chat[r].pc \in {"llm", "fetch"} => chat[r].resp = None
             /\ chat[r].pc = "fetch" => shot[r].pc \in {"running", "done"}
             /\ Ends(r) =>
                   LET msgs == chatSessions'[chat[r].sid].messages
                   IN  /\ chat[r].pc \in {"llm", "fetch"}
                       /\ msgs[Len(msgs)] = Val(Val(chat'[r].resp).response)
                       /\ \E i \in 1..(Len(msgs) - 1) :
                             msgs[i].mid = chat[r].userMid]_vars

\* a function-calling turn waits for the screenshot endpoint, its user
\* message stored, the model's reply received, its assistant message not yet
\* composed
C21_Witness ==
    \E r \in ChatReqs :
        /\ chatVariant = "fc"
        /\ chat[r].pc = "fetch" /\ shot[r].pc = "running"
        /\ chat[r].text = Str("reply")
        /\ LET msgs == chatSessions[chat[r].sid].messages
           IN  msgs[Len(msgs)].mid = chat[r].userMid

\* the positions of msgs that hold a user or an assistant message
KeptPositions(msgs) ==
    {j \in 1..Len(msgs) : msgs[j].role \in {"user", "assistant"}}

\* the position in msgs of its i-th user or assistant message
NthKept(msgs, i) ==
    CHOOSE j \in KeptPositions(msgs) :
        Cardinality({n \in KeptPositions(msgs) : n <= j}) = i

\* list is what the model is to receive for the stored messages msgs
IsModelListOf(list, msgs) ==
    /\ Len(list) = Cardinality(KeptPositions(msgs))
    /\ \A i \in 1..Len(list) :
          LET m == msgs[NthKept(msgs, i)]
          IN  /\ list[i].text = m.content
              /\ list[i].role = IF m.role = "assistant" THEN "model" ELSE "user"

MaxSampleLen == 3
SampleMessages ==
    {PlainMessage(1, "user", Str("hello")),
     PlainMessage(2, "assistant", Str("reply")),
     PlainMessage(3, "system", Str("be brief"))}
SampleLists ==
    UNION {[1..n -> SampleMessages] : n \in 0..MaxSampleLen}

\* C22: function-calling variant.  The list handed to the model when a turn
\* starts is the session's stored messages of role user or assistant, in
\* stored order, assistant mapped to model, and its last element is the
\* turn's own user message, whatever other turns on the session are in
\* flight; of any list of messages, those of role system are dropped.
C22_ListSentToModel ==
    /\ [][\A r \in ChatReqs :
             (chatVariant = "fc" /\ Starts(r)) =>
                LET msgs == chatSessions'[chat'[r].sid].messages
                    list == chat'[r].sent
                IN  /\ IsModelListOf(list, msgs)
                    /\ Len(list) = Len(msgs)
                    /\ msgs[Len(msgs)].mid = chat'[r].userMid
                    /\ list[Len(list)]
                          = [role |-> "user", text |-> msgs[Len(msgs)].content]]_vars
    /\ \A msgs \in SampleLists :
          /\ IsModelListOf(GeminiMessages(msgs), msgs)
          /\ \A i \in 1..Len(GeminiMessages(msgs)) :
                GeminiMessages(msgs)[i].role \in {"user", "model"}

\* a function-calling turn was started on a session on which another turn
\* is in flight, and the model received both user messages, its own last
C22_Witness ==
    \E r, q \in ChatReqs :
        /\ r # q /\ chatVariant = "fc"
        /\ chat[r].pc = "llm" /\ chat[q].pc = "llm"
        /\ chat[r].sid = chat[q].sid
        /\ chat[q].userMid < chat[r].userMid
        /\ Len(chat[r].sent) >= 2
        /\ chat[r].sent[Len(chat[r].sent)].role = "user"
        /\ chat[r].sent[Len(chat[r].sent) - 1].role = "user"

\* the screenshot fields of a returned assistant message that are present
FieldsPresent(resp) ==
    IF IsSome(resp.response)
    THEN <<IsSome(Val(resp.response).isScreenshot),
           IsSome(Val(resp.response).screenshotUrl),
           IsSome(Val(resp.response).screenshotBase64)>>
    ELSE <<FALSE, FALSE, FALSE>>

Roles(msgs) == [i \in 1..Len(msgs) |-> msgs[i].role]

UserContents(msgs) ==
    [i \in 1..Len(msgs) |->
        IF msgs[i].role = "user" THEN msgs[i].content ELSE EmptyStr]

\* the two routes gave the same answer to the last request
SameAnswers ==
    IsSome(pair.fcResp) =>
        LET f == Val(pair.fcResp)
            t == Val(pair.twoCallResp)
        IN  /\ f.status = t.status
            /\ f.sessionId = t.sessionId
            /\ f.isScreenshotIntent = t.isScreenshotIntent
            /\ f.extractedUrl = t.extractedUrl
            /\ FieldsPresent(f) = FieldsPresent(t)

\* history GET shows the same sessions with the same history in both
SameHistories ==
    \A q \in DOMAIN pair.fc \cup DOMAIN pair.twoCall \cup {BogusId} :
        LET f == GetHandle(q, pair.fc)
            t == GetHandle(q, pair.twoCall)
        IN  /\ f.status = t.status
            /\ f.sessionId = t.sessionId
            /\ Len(f.messages) = Len(t.messages)
            /\ Roles(f.messages) = Roles(t.messages)
            /\ UserContents(f.messages) = UserContents(t.messages)

\* C23 as stated: the two chat routes, driven by the same requests, the same
\* decisions of the model and the same outcomes of the helper, return the
\* same sessionId, isScreenshotIntent, extractedUrl and screenshot fields
\* and leave the same history (length, roles, contents of the user
\* messages) as history GET shows it.
C23_VariantsEquivalent == SameAnswers /\ SameHistories

\* reply is core with white space before and after it
IsPadded(reply, core) ==
    \E i, j \in 0..Len(reply) :
        /\ i + Len(core) + j = Len(reply)
        /\ SubSeq(reply, i + 1, i + Len(core)) = core
        /\ \A n \in 1..i : reply[n] \in {" ", "\n"}
        /\ \A n \in (Len(reply) - j + 1)..Len(reply) : reply[n] \in {" ", "\n"}

\* what extractUrlFromPrompt is to return for a reply that trims to core
ExpectedUrl(core) ==
    IF core = NO_URL_FOUND THEN None
    ELSE IF ParsesAsUrl(core) THEN Some(UrlToString(core))
    ELSE IF core # <<>> /\ core[1] \in {"http://", "https://"} THEN None
    ELSE IF ParsesAsUrl(<<"https://">> \o core)
    THEN Some(UrlToString(<<"https://">> \o core))
    ELSE None

ExtractReturned ==
    probe.fn = "extractUrlFromPrompt" /\ probe.returned

\* C24: extractUrlFromPrompt returns null when the LLM call fails and when
\* the trimmed reply is NO_URL_FOUND; the normalised url when the trimmed
\* reply parses as a url; else, only when the trimmed reply does not start
\* with http:// or https://, the normalised parse of "https://" + reply when
\* that parses; null in every other case.  It returns for every outcome of
\* the call, and what it returns is null or a normalised absolute url.
C24_ExtractUrlFromPrompt ==
    /\ ExtractReturned =>
          /\ ~probe.out.ok => probe.url = None
          /\ probe.out.ok =>
                \A core \in ReplyCores :
                    IsPadded(probe.out.reply, core) => probe.url = ExpectedUrl(core)
          /\ IsSome(probe.url) =>
                ParsesAsUrl(Val(probe.url)) /\ Len(Val(probe.url)) >= 3
    /\ (probe.fn = "extractUrlFromPrompt" /\ ~probe.returned) =>
          ENABLED ExtractUrlReturns

\* a reply without scheme, white space around it, was returned with https://
\* in front and the empty path written out
C24_Witness ==
    /\ ExtractReturned
    /\ probe.out.ok
    /\ probe.out.reply = <<" ", "a.com", "\n">>
    /\ probe.url = Some(<<"https://", "a.com", "/">>)

YesCores == {<<y, e, s>> : y \in {"y", "Y"}, e \in {"e", "E"}, s \in {"s", "S"}}

DetectReturned ==
    probe.fn = "detectScreenshotIntent" /\ probe.returned

\* C25: detectScreenshotIntent returns true exactly when the LLM call
\* succeeds and its reply is the word yes, in any mix of upper and lower
\* case, with nothing but white space around it; any other reply and a
\* failure of the call give false; it returns for every outcome of the call.
C25_DetectScreenshotIntent ==
    /\ DetectReturned =>
          (probe.intent <=>
              /\ probe.out.ok
              /\ \E core \in YesCores : IsPadded(probe.out.reply, core))
    /\ (probe.fn = "detectScreenshotIntent" /\ ~probe.returned) =>
          ENABLED DetectIntentReturns

\* a lower-case yes with white space around it was returned as true
C25_Witness ==
    /\ DetectReturned
    /\ probe.out.ok
    /\ probe.out.reply = <<" ", "y", "e", "s", "\n">>
    /\ probe.intent

\* C26: no step removes a session from the store; a stored session keeps its
\* id and its createdAt; its updatedAt never decreases, and a turn that
\* passes validation with the id of a stored session sets that session's
\* updatedAt to the time of the turn.
C26_SessionsKeptAndRefreshed ==
    [][/\ DOMAIN chatSessions \subseteq DOMAIN chatSessions'
       /\ \A k \in DOMAIN chatSessions :
             /\ chatSessions'[k].id = chatSessions[k].id
             /\ chatSessions'[k].createdAt = chatSessions[k].createdAt
             /\ chatSessions'[k].updatedAt >= chatSessions[k].updatedAt
       /\ \A k \in DOMAIN chatSessions' :
             chatSessions'[k].createdAt <= chatSessions'[k].updatedAt
       /\ \A r \in ChatReqs : \A body \in ChatBodies :
             (/\ ChatPost(r, body)
              /\ MessageSchemaOk(body)
              /\ ReusesSession(body.sessionId, chatSessions)) =>
                chatSessions'[body.sessionId].updatedAt = now]_vars

\* a session created at time 0 was reused by a turn at a later time: its
\* createdAt is still 0 and its updatedAt is the time of that turn
C26_Witness ==
    \E r \in ChatReqs :
        /\ InFlight(chat[r]) /\ ~chat[r].created
        /\ now > 0
        /\ chatSessions[chat[r].sid].createdAt = 0
        /\ chatSessions[chat[r].sid].updatedAt = now

\* what run h of the helper has logged
Logged(h, line) == \E i \in 1..Len(helper[h].stderr) : helper[h].stderr[i] = line

\* C27 as stated: a run of the helper whose MCP client has connected does
\* not exit before the client is disconnected, whether the run succeeds or
\* navigation or the capture throws.
C27_DisconnectedBeforeExit ==
    \A h \in Helpers :
        (/\ helper[h].pc = "exited"
         /\ Logged(h, "MCP Client connected. Navigating to: ")) =>
            Logged(h, "MCP Client disconnected.")

\* the number of messages of role among the first i of msgs
CountRole(msgs, role, i) == Cardinality({n \in 1..i : msgs[n].role = role})

\* C28 as stated: in every session's list the roles alternate strictly,
\* user first, also while two turns on the session are in flight.
C28_RolesAlternate ==
    \A k \in DOMAIN chatSessions :
        LET msgs == chatSessions[k].messages
        IN  \A i \in 1..Len(msgs) :
                msgs[i].role = IF i % 2 = 1 THEN "user" ELSE "assistant"

\* C28, amended: every session's list starts with a user message and no
\* prefix of it holds more assistant messages than user messages; the
\* assistant message of a turn is appended after that turn's user message,
\* and immediately after it when no other turn appended to the session in
\* between.
C28_AssistantFollowsOwnUser ==
    /\ [](\A k \in DOMAIN chatSessions :
             LET msgs == chatSessions[k].messages
             IN  /\ msgs # <<>> => msgs[1].role = "user"
                 /\ \A i \in 1..Len(msgs) :
                       CountRole(msgs, "assistant", i) <= CountRole(msgs, "user", i))
    /\ [][\A r \in ChatReqs :
             Ends(r) =>
                LET msgs == chatSessions'[chat[r].sid].messages
                    n == Len(msgs)
                IN  /\ msgs[n].role = "assistant"
                    /\ msgs[n] = Val(Val(chat'[r].resp).response)
                    /\ \E i \in 1..(n - 1) :
                          /\ msgs[i].mid = chat[r].userMid
                          /\ msgs[i].role = "user"
                          /\ i = n - 1 - chat[r].others
                    /\ chat[r].others = 0 => msgs[n - 1].mid = chat[r].userMid]_vars

\* two turns were in flight on one session: the list reads ..., user, user,
\* assistant, the assistant message answering the first of the two
C28_Witness ==
    \E k \in DOMAIN chatSessions : \E q \in ChatReqs :
        LET msgs == chatSessions[k].messages
            n == Len(msgs)
        IN  /\ n >= 3
            /\ msgs[n].role = "assistant"
            /\ msgs[n - 1].role = "user" /\ msgs[n - 2].role = "user"
            /\ InFlight(chat[q]) /\ chat[q].sid = k
            /\ chat[q].userMid = msgs[n - 1].mid
            /\ chat[q].others = 1

\* C29: a chat response with success = true has a non-null extractedUrl only
\* if its isScreenshotIntent is true; its assistant message has isScreenshot
\* = true only if isScreenshotIntent is true and the screenshot endpoint
\* answered this turn with success, and then the message's screenshotUrl,
\* the returned extractedUrl and the url the endpoint was sent are the same.
C29_ResponseFieldsConsistent ==
    [][\A r \in ChatReqs :
          (Ends(r) /\ Val(chat'[r].resp).success) =>
             LET resp == Val(chat'[r].resp)
                 m == Val(resp.response)
             IN  /\ IsSome(resp.extractedUrl) => resp.isScreenshotIntent
                 /\ m.isScreenshot = Some(TRUE) =>
                       /\ resp.isScreenshotIntent
                       /\ chat[r].pc = "fetch"
                       /\ shot[r].pc = "done"
                       /\ Val(shot[r].resp).json
                       /\ Val(shot[r].resp).success
                       /\ IsSome(resp.extractedUrl)
                       /\ m.screenshotUrl = resp.extractedUrl
                       /\ shot[r].spawnedUrl = resp.extractedUrl]_vars

\* a two-call turn has answered with a screenshot of the url it normalised
C29_Witness ==
    \E r \in ChatReqs :
        /\ chatVariant = "twoCall"
        /\ chat[r].pc = "done"
        /\ LET resp == Val(chat[r].resp)
           IN  /\ resp.success /\ resp.isScreenshotIntent
               /\ resp.extractedUrl = Some(URL_OK)
               /\ Val(resp.response).isScreenshot = Some(TRUE)
               /\ Val(resp.response).screenshotUrl = Some(URL_OK)

\* run h has exited with this code
ExitedWith(h, code) == helper[h].pc = "exited" /\ helper[h].exit = Some(code)

\* the capture result holds no image data
NoImageData(content) ==
    \/ content = None
    \/ Val(content).type # "image"
    \/ Val(content).data = EmptyStr

\* what the screenshot endpoint answers when run h is its child and closes
EndpointAnswer(h) ==
    OnClose([IdleShot EXCEPT !.stdoutData = OnStdoutData(@, helper[h].stdout)],
            Val(helper[h].exit))

\* C30 as stated: the helper exits 1, never having connected, when its
\* argument fails validation; it exits 1 when connect, navigate or capture
\* throws; it exits 0 in every other case.
C30_ExitZeroOtherwise ==
    \A h \in Helpers :
        helper[h].pc = "exited" =>
            /\ helper[h].url = None =>
                  /\ ExitedWith(h, 1)
                  /\ ~Logged(h, "MCP Client connected. Navigating to: ")
            /\ (/\ helper[h].url # None
                /\ ~Logged(h, "Screenshot taken. Processing result...")) =>
                  ExitedWith(h, 1)
            /\ Logged(h, "Screenshot taken. Processing result...") =>
                  ExitedWith(h, 0)

\* C30, amended: the helper exits 1, never having connected, when its
\* argument fails validation; it exits 1 when connect, navigate or capture
\* throws; after a capture that returned it exits 0 unless disconnect() was
\* called and threw, and then it exits 1.  A capture result without image
\* data has nothing written to stdout; the helper that then exits 0 is
\* answered by the screenshot endpoint with the empty-output failure,
\* status 500, and not with success.
C30_HelperExitCodes ==
    /\ [](\A h \in Helpers :
             helper[h].pc = "exited" =>
                /\ helper[h].url = None =>
                      /\ ExitedWith(h, 1)
                      /\ ~Logged(h, "MCP Client connected. Navigating to: ")
                      /\ ~Logged(h, "MCP Script Error: ")
                /\ (/\ helper[h].url # None
                    /\ ~Logged(h, "Screenshot taken. Processing result...")) =>
                      ExitedWith(h, 1)
                /\ Logged(h, "Screenshot taken. Processing result...") =>
                      IF /\ Logged(h, "Disconnecting MCP client...")
                         /\ ~Logged(h, "MCP Client disconnected.")
                      THEN ExitedWith(h, 1)
                      ELSE ExitedWith(h, 0)
                /\ Logged(h, "Could not find base64 data") =>
                      /\ helper[h].stdout = EmptyStr
                      /\ ExitedWith(h, 0) =>
                            /\ EndpointAnswer(h).status = 500
                            /\ ~EndpointAnswer(h).success
                            /\ EndpointAnswer(h).error.kind = "empty")
    /\ [][\A h \in Helpers : \A content \in CaptureContents :
             \A connected \in BOOLEAN :
                (HelperCaptured(h, TRUE, content, connected) /\ NoImageData(content))
                   => /\ helper'[h].stdout = EmptyStr
                      /\ helper'[h].image = None
                      /\ helper'[h].exit \in {None, Some(0)}]_vars

\* a run whose capture returned content of type text has exited 0 with
\* nothing on stdout, which the endpoint answers with the empty-output failure
C30_Witness ==
    \E h \in Helpers :
        /\ ExitedWith(h, 0)
        /\ Logged(h, "Could not find base64 data")
        /\ helper[h].stdout = EmptyStr
        /\ EndpointAnswer(h).error.kind = "empty"

====
